---------------------------- MODULE Spec2Model ----------------------------
(***************************************************************************)
(* A model of the FOPH snapshot diff of pharma2merge (src/src/foph_diff.rs) *)
(*                                                                         *)
(*   get_effective_price : price series x reference date -> amount         *)
(*   process_bundles     : bundle sequence x date -> PackageMap            *)
(*   run_foph_diff       : two PackageMaps -> nine category arrays         *)
(*                                                                         *)
(* Representation.                                                         *)
(*   - Option<T> is a sequence of length 0 (None) or 1 (Some).             *)
(*   - A string whose bytes matter (a GTIN value) is a sequence of         *)
(*     characters; str::len() is its UTF-8 byte length.                    *)
(*   - A BTreeMap is a function; iterating it visits the keys in           *)
(*     ascending key order.                                                *)
(*   - An f64 price is an integer number of 1/10000 currency units, so     *)
(*     0.001 is 10 and 0.0009 is 9; sums and differences are exact.        *)
(***************************************************************************)
EXTENDS Integers, Sequences, FiniteSets, TLC

VARIABLES
    pc,                 \* position of the operation under check
    prices,             \* get_effective_price: the series (date -> amount)
    current,            \* get_effective_price: the reference date
    price,              \* get_effective_price: the returned amount
    bundles,            \* process_bundles: the bundle sequence
    current_dt,         \* process_bundles: the reference date
    packages,           \* process_bundles: the returned PackageMap
    old_bundles,        \* run_foph_diff: bundles of the old file
    new_bundles,        \* run_foph_diff: bundles of the new file
    old_effective_date, \* run_foph_diff: reference date of the old file
    new_effective_date, \* run_foph_diff: reference date of the new file
    old_pkg,            \* run_foph_diff: merged PackageMap of the old file
    new_pkg,            \* run_foph_diff: merged PackageMap of the new file
    num_threads,        \* run_foph_diff: rayon::current_num_threads()
    out,                \* run_foph_diff: the nine category arrays
    content,            \* read_foph_bundles: the text of the file, if readable
    loaded,             \* read_foph_bundles: the passes run and the result
    fallback,           \* extract_date_from_bundles: the fallback date
    effective_date,     \* extract_date_from_bundles: the returned date
    old_file,           \* run_foph_diff: the old file (fallback date, text)
    new_file,           \* run_foph_diff: the new file (fallback date, text)
    filter,             \* run_foph_diff: the category filter, if any
    old_result,         \* run_foph_diff: result of the first load closure
    new_result,         \* run_foph_diff: result of the second load closure
    old_results,        \* run_foph_diff: per-chunk PackageMaps, old file
    new_results,        \* run_foph_diff: per-chunk PackageMaps, new file
    status,             \* run_foph_diff: how the process ended, if it did
    stdout,             \* run_foph_diff: the gtins printed for a filter
    written             \* run_foph_diff: the output file, if created

vars == <<pc, prices, current, price, bundles, current_dt, packages,
          old_bundles, new_bundles, old_effective_date, new_effective_date,
          old_pkg, new_pkg, num_threads, out, content, loaded, fallback,
          effective_date, old_file, new_file, filter, old_result, new_result,
          old_results, new_results, status, stdout, written>>

priceVars == <<prices, current, price>>
extractVars == <<bundles, current_dt, packages>>
runVars == <<old_bundles, new_bundles, old_effective_date, new_effective_date,
             old_pkg, new_pkg, num_threads, out>>
loadVars == <<content, loaded>>
dateVars == <<fallback, effective_date>>
ioVars == <<old_file, new_file, filter, old_result, new_result,
            old_results, new_results, status, stdout, written>>

-----------------------------------------------------------------------------
(* Bounds of the checked instances.                                        *)

\* number of distinct change dates a price series may hold
MaxDates == 4
\* total number of entries over the bundles of one snapshot
MaxEntries == 3
\* number of package records over both PackageMaps handed to the diff
MaxPackages == 3
\* total number of entries over the bundles of each file of a whole run
MaxRunEntries == 2
\* number of threads of the worker pool
MaxThreads == 2
\* number of text fragments a file is made of
MaxFragments == 3
\* number of bundles whose timestamps are tallied
MaxBundles == 3

-----------------------------------------------------------------------------
(* Generic helpers.                                                        *)

NoneV == <<>>
Some(x) == <<x>>
IsSome(o) == Len(o) = 1
Unwrap(o) == o[1]

EmptyMap == <<>>

\* read_foph_bundles not called
NotLoaded ==
    [ok |-> FALSE, bundles |-> <<>>, primary |-> <<>>, fallback_ran |-> FALSE]

\* no file given
NoFile == [fallback_dt |-> <<2026, 1, 6>>, content |-> <<>>]

\* the nine category arrays before any is computed
EmptyOut ==
    [new |-> <<>>, del |-> <<>>, sl_entry |-> <<>>, sl_entry_delete |-> <<>>,
     name_base |-> <<>>, retail_up |-> <<>>, retail_down |-> <<>>,
     exfactory_up |-> <<>>, exfactory_down |-> <<>>]

Min(a, b) == IF a <= b THEN a ELSE b

Abs(x) == IF x < 0 THEN -x ELSE x

\* BTreeMap / Vec helpers
Insert(m, k, v) == [x \in DOMAIN m \cup {k} |-> IF x = k THEN v ELSE m[x]]

Range(s) == {s[i] : i \in DOMAIN s}

-----------------------------------------------------------------------------
(* DateTuple = (year, month, day), ordered as a tuple.                     *)

DateLt(a, b) ==
    \/ a[1] < b[1]
    \/ a[1] = b[1] /\ a[2] < b[2]
    \/ a[1] = b[1] /\ a[2] = b[2] /\ a[3] < b[3]

DateLe(a, b) == a = b \/ DateLt(a, b)

\* the keys of a BTreeMap<DateTuple, _> in iteration order
SortedDates(S) ==
    [i \in 1..Cardinality(S) |->
        CHOOSE d \in S : Cardinality({e \in S : DateLt(e, d)}) = i - 1]

\* dates of the checked instances; neither month nor day alone orders them
DateList == << <<2026, 1, 6>>, <<2025, 12, 31>>, <<2026, 2, 1>>,
               <<2025, 6, 30>>, <<2026, 1, 31>>, <<2024, 12, 1>> >>

DateUniverse == {DateList[i] : i \in 1..Min(MaxDates, Len(DateList))}

\* positive amounts, in 1/10000 units: 10.00 and 12.50
PriceAmounts == {100000, 125000}

-----------------------------------------------------------------------------
(* Strings whose bytes the code inspects: sequences of characters.         *)

\* the character U+00E9, two bytes in UTF-8; every other character used
\* here is ASCII
EAcute == "U+00E9"

Utf8Len(c) == IF c = EAcute THEN 2 ELSE 1

RECURSIVE StrLen(_)
\* str::len(): the length in bytes
StrLen(s) == IF s = <<>> THEN 0 ELSE Utf8Len(Head(s)) + StrLen(Tail(s))

\* str::starts_with
StartsWith(s, p) == Len(s) >= Len(p) /\ SubSeq(s, 1, Len(p)) = p

DigitChars == <<"0", "1", "2", "3", "4", "5", "6", "7", "8", "9">>

IsDigit(c) == \E i \in DOMAIN DigitChars : DigitChars[i] = c

DigitVal(c) == (CHOOSE i \in DOMAIN DigitChars : DigitChars[i] = c) - 1

\* the first byte of a character, which orders strings
ByteRank(c) ==
    IF IsDigit(c) THEN 48 + DigitVal(c)
    ELSE IF c = "+" THEN 43
    ELSE IF c = "-" THEN 45
    ELSE IF c = EAcute THEN 195
    ELSE IF c = "T" THEN 84
    ELSE IF c = "x" THEN 120
    ELSE 64 + (CHOOSE i \in 1..9 : <<"A", "B", "C", "D", "E", "F", "G", "H", "I">>[i] = c)

RECURSIVE StrLt(_, _)
\* the order of String keys in a BTreeMap
StrLt(a, b) ==
    IF b = <<>> THEN FALSE
    ELSE IF a = <<>> THEN TRUE
    ELSE IF Head(a) # Head(b) THEN ByteRank(Head(a)) < ByteRank(Head(b))
    ELSE StrLt(Tail(a), Tail(b))

\* the keys of a BTreeMap<String, _> in iteration order
SortedStrs(S) ==
    [i \in 1..Cardinality(S) |->
        CHOOSE k \in S : Cardinality({j \in S : StrLt(j, k)}) = i - 1]

-----------------------------------------------------------------------------
(* parse_date_str                                                          *)

RECURSIVE DigitsValue(_, _)
\* the decimal value of a string of digits, acc the value read so far
DigitsValue(s, acc) ==
    IF s = <<>> THEN acc ELSE DigitsValue(Tail(s), 10 * acc + DigitVal(Head(s)))

\* str::parse::<i32>(): an optional sign, then one or more digits
ParseI32(s) ==
    LET signed == s # <<>> /\ Head(s) \in {"+", "-"}
        digits == IF signed THEN Tail(s) ELSE s
    IN  IF digits = <<>> \/ \E i \in DOMAIN digits : ~IsDigit(digits[i])
        THEN NoneV
        ELSE IF signed /\ Head(s) = "-"
        THEN Some(0 - DigitsValue(digits, 0))
        ELSE Some(DigitsValue(digits, 0))

\* the number of characters of s that end within its first n bytes
CharsWithin(s, n) ==
    Cardinality({k \in 1..Len(s) : StrLen(SubSeq(s, 1, k)) <= n})

\* whether byte offset n of s lies between two characters
IsCharBoundary(s, n) == \E k \in 0..Len(s) : StrLen(SubSeq(s, 1, k)) = n

\* &d[lo..hi], defined when both offsets are character boundaries
ByteSlice(s, lo, hi) == SubSeq(s, CharsWithin(s, lo) + 1, CharsWithin(s, hi))

\* slicing a str off a character boundary panics; the slices are taken one
\* after the other and a failed parse returns before the next slice
ParseDateStrPanics(d) ==
    /\ StrLen(d) >= 10
    /\ \/ ~IsCharBoundary(d, 4)
       \/ /\ IsSome(ParseI32(ByteSlice(d, 0, 4)))
          /\ \/ ~IsCharBoundary(d, 5) \/ ~IsCharBoundary(d, 7)
             \/ /\ IsSome(ParseI32(ByteSlice(d, 5, 7)))
                /\ (~IsCharBoundary(d, 8) \/ ~IsCharBoundary(d, 10))

\* the returned Option<DateTuple>, when parse_date_str does not panic
ParseDateStr(d) ==
    IF StrLen(d) < 10 THEN NoneV
    ELSE LET y == ParseI32(ByteSlice(d, 0, 4))
             m == ParseI32(ByteSlice(d, 5, 7))
             day == ParseI32(ByteSlice(d, 8, 10))
         IN  IF IsSome(y) /\ IsSome(m) /\ IsSome(day)
             THEN Some(<<Unwrap(y), Unwrap(m), Unwrap(day)>>)
             ELSE NoneV

\* the decimal digits of n, zero-padded to w characters
RECURSIVE Pad(_, _)
Pad(n, w) ==
    IF w = 0 THEN <<>> ELSE Append(Pad(n \div 10, w - 1), DigitChars[(n % 10) + 1])

\* the ISO text "yyyy-mm-dd" of a date
IsoDate(dt) == Pad(dt[1], 4) \o <<"-">> \o Pad(dt[2], 2) \o <<"-">> \o Pad(dt[3], 2)

-----------------------------------------------------------------------------
(* get_effective_price                                                     *)

RECURSIVE GetEffectivePriceLoop(_, _, _, _, _, _)
\* the for loop: keys is the series' key order, i the next key, best and p
\* the loop's two locals
GetEffectivePriceLoop(series, keys, i, cur, best, p) ==
    IF i > Len(keys) THEN p
    ELSE LET dt == keys[i]
         IN  IF DateLe(dt, cur) /\ (~IsSome(best) \/ DateLt(Unwrap(best), dt))
             THEN GetEffectivePriceLoop(series, keys, i + 1, cur, Some(dt), series[dt])
             ELSE GetEffectivePriceLoop(series, keys, i + 1, cur, best, p)

\* a slip in the date test: a sample dated on the reference date is ignored
GetEffectivePriceStrict(series, cur) ==
    LET past == {d \in DOMAIN series : DateLt(d, cur)}
    IN  IF past = {} THEN 0
        ELSE series[CHOOSE d \in past : \A e \in past : DateLe(e, d)]

GetEffectivePrice(series, cur) ==
    GetEffectivePriceLoop(series, SortedDates(DOMAIN series), 1, cur, NoneV, 0)

-----------------------------------------------------------------------------
(* The documents process_bundles reads.  A resource holds the fields the   *)
(* code looks at; a field that is absent, or not of the JSON type the code *)
(* asks for, is None (or the default the code substitutes).                *)
(*                                                                         *)
(*   resource  [rtype, id,                 resourceType, id ("" if absent) *)
(*              identifier,                packaging.identifier            *)
(*              description, div,          description, text.div           *)
(*              coding,                    type.coding (codes, "" if none) *)
(*              subject,                   subject[0].reference, "" if none*)
(*              extension]                 extension                       *)
(*   extension [url, extension]            url, extension                  *)
(*   sub-extension [url, code, money, date]                                *)
(*   bundle    [timestamp, lastUpdated, entry]                             *)
(*   an entry is its resource, None when it holds none                     *)

PPD == "PackagedProductDefinition"
RA == "RegulatedAuthorization"

GtinSystem == "urn:oid:2.51.1.1"
GtinPrefix == <<"7", "6", "8", "0">>
GtinLen == 13
SlCode == "756000002003"
RetailCode == "756002005001"
ExfactoryCode == "756002005002"
UnknownProduct == "Unknown Product"

\* an extension url that contains "productPrice"
ProductPriceUrl == "http://fhir.ch/ig/ch-epl/StructureDefinition/productPrice"

\* url.contains("productPrice"), for the urls of the checked instances
ContainsProductPrice(url) == url = ProductPriceUrl

\* format!("{}/{}", rtype, id)
ResourceKey(rtype, id) == rtype \o "/" \o id

\* ids of the checked instances, in string order
IdList == <<"1", "2", "3">>

IdRank(id) == CHOOSE i \in DOMAIN IdList : IdList[i] = id

\* resource types of the checked instances, in string order
TypeList == <<"Organization", PPD, RA>>

TypeRank(t) == CHOOSE i \in DOMAIN TypeList : TypeList[i] = t

\* the order of the keys "type/id" of two indexed resources
KeyLt(r1, r2) ==
    \/ TypeRank(r1.rtype) < TypeRank(r2.rtype)
    \/ r1.rtype = r2.rtype /\ IdRank(r1.id) < IdRank(r2.id)

\* the keys of the resource index in iteration order
SortedKeys(resources) ==
    [i \in 1..Cardinality(DOMAIN resources) |->
        CHOOSE k \in DOMAIN resources :
            Cardinality({j \in DOMAIN resources :
                            KeyLt(resources[j], resources[k])}) = i - 1]

-----------------------------------------------------------------------------
(* process_bundles                                                         *)

RECURSIVE BuildResources(_, _, _)
\* the index "ResourceType/id" -> resource of one bundle
BuildResources(entries, i, resources) ==
    IF i > Len(entries) THEN resources
    ELSE IF ~IsSome(entries[i])
    THEN BuildResources(entries, i + 1, resources)
    ELSE LET res == Unwrap(entries[i])
         IN  IF res.rtype # "" /\ res.id # ""
             THEN BuildResources(entries, i + 1,
                      Insert(resources, ResourceKey(res.rtype, res.id), res))
             ELSE BuildResources(entries, i + 1, resources)

\* the keys of the PackagedProductDefinition resources, in index order
PpdKeys(resources) ==
    SelectSeq(SortedKeys(resources), LAMBDA k : resources[k].rtype = PPD)

\* the test of one packaging identifier
Qualifies(id) ==
    /\ id.system = GtinSystem
    /\ StrLen(id.value) = GtinLen
    /\ StartsWith(id.value, GtinPrefix)

\* the first qualifying identifier value of a product, if any
ExtractGtin(res) ==
    IF ~IsSome(res.identifier) THEN NoneV
    ELSE LET ids == Unwrap(res.identifier)
             hits == {i \in DOMAIN ids : Qualifies(ids[i])}
         IN  IF hits = {} THEN NoneV
             ELSE Some(ids[CHOOSE i \in hits : \A j \in hits : i <= j].value)

ExtractName(res) ==
    IF IsSome(res.description) THEN Unwrap(res.description)
    ELSE IF IsSome(res.div) THEN Unwrap(res.div)
    ELSE UnknownProduct

\* whether one of the authorization's type codings is the SL code
IsSl(auth) ==
    IsSome(auth.coding) /\ \E i \in DOMAIN Unwrap(auth.coding) :
                              Unwrap(auth.coding)[i] = SlCode

RECURSIVE SubExtLoop(_, _, _)
\* the loop over the sub-extensions: acc is <<type_code, value, change_date>>
SubExtLoop(subs, i, acc) ==
    IF i > Len(subs) THEN acc
    ELSE LET sub == subs[i]
         IN  IF sub.url = "type"
             THEN SubExtLoop(subs, i + 1, <<sub.code, acc[2], acc[3]>>)
             ELSE IF sub.url = "value"
             THEN SubExtLoop(subs, i + 1, <<acc[1], sub.money, acc[3]>>)
             ELSE IF sub.url = "changeDate"
             THEN SubExtLoop(subs, i + 1, <<acc[1], acc[2], sub.date>>)
             ELSE SubExtLoop(subs, i + 1, acc)

\* the three values read from one price extension
PriceFields(ext) == SubExtLoop(Unwrap(ext.extension), 1, <<"", 0, <<>> >>)

\* whether the loop body reaches parse_date_str for this extension
ReachesParse(ext) ==
    /\ ContainsProductPrice(ext.url)
    /\ IsSome(ext.extension)
    /\ PriceFields(ext)[1] \in {RetailCode, ExfactoryCode}
    /\ PriceFields(ext)[2] > 0
    /\ PriceFields(ext)[3] # <<>>

PriceType(code) == IF code = RetailCode THEN "retail" ELSE "exfactory"

RECURSIVE ExtLoop(_, _, _)
\* the loop over an authorization's extensions; pbt is price_by_type
ExtLoop(exts, i, pbt) ==
    IF i > Len(exts) THEN pbt
    ELSE IF ReachesParse(exts[i]) /\ IsSome(ParseDateStr(PriceFields(exts[i])[3]))
    THEN LET f == PriceFields(exts[i])
             t == PriceType(f[1])
             dt == Unwrap(ParseDateStr(f[3]))
         IN  ExtLoop(exts, i + 1, [pbt EXCEPT ![t] = Insert(@, dt, f[2])])
    ELSE ExtLoop(exts, i + 1, pbt)

\* the test of an authorization with its subject reference ignored
RelevantAnySubject(auth, ppd_key) ==
    auth.rtype = RA /\ IsSl(auth)

\* whether the authorization is a reimbursement-list entry of the product
Relevant(auth, ppd_key) ==
    auth.rtype = RA /\ IsSl(auth) /\ auth.subject = ppd_key

RECURSIVE AuthLoop(_, _, _, _, _)
\* the loop over the resource index for one product; acc is
\* [pbt |-> price_by_type, has |-> has_sl_entry]
AuthLoop(resources, keys, i, ppd_key, acc) ==
    IF i > Len(keys) THEN acc
    ELSE LET auth == resources[keys[i]]
         IN  IF ~Relevant(auth, ppd_key)
             THEN AuthLoop(resources, keys, i + 1, ppd_key, acc)
             ELSE IF ~IsSome(auth.extension)
             THEN AuthLoop(resources, keys, i + 1, ppd_key, [acc EXCEPT !.has = TRUE])
             ELSE AuthLoop(resources, keys, i + 1, ppd_key,
                      [pbt |-> ExtLoop(Unwrap(auth.extension), 1, acc.pbt),
                       has |-> TRUE])

NoPrices == [retail |-> EmptyMap, exfactory |-> EmptyMap]

\* the PackageInfo resolved for the product indexed under ppd_key
ResolveInfo(resources, ppd_key, cur) ==
    LET acc == AuthLoop(resources, SortedKeys(resources), 1, ppd_key,
                        [pbt |-> NoPrices, has |-> FALSE])
    IN  [name |-> ExtractName(resources[ppd_key]),
         retail_price |-> GetEffectivePrice(acc.pbt.retail, cur),
         exfactory_price |-> GetEffectivePrice(acc.pbt.exfactory, cur),
         has_sl_entry |-> acc.has]

\* the retention test without its reimbursement-list disjunct
RetainedPricedOnly(info) ==
    info.retail_price > 0 \/ info.exfactory_price > 0

\* the retention test left out: every resolved product is kept
RetainedAlways(info) == TRUE

\* the test that decides whether a resolved product enters the PackageMap
Retained(info) ==
    info.retail_price > 0 \/ info.exfactory_price > 0 \/ info.has_sl_entry

RECURSIVE PpdLoop(_, _, _, _, _)
\* the loop over the products of one bundle
PpdLoop(resources, ppd_keys, i, cur, pkgs) ==
    IF i > Len(ppd_keys) THEN pkgs
    ELSE LET gtin == ExtractGtin(resources[ppd_keys[i]])
             info == ResolveInfo(resources, ppd_keys[i], cur)
         IN  IF IsSome(gtin) /\ Retained(info)
             THEN PpdLoop(resources, ppd_keys, i + 1, cur,
                          Insert(pkgs, Unwrap(gtin), info))
             ELSE PpdLoop(resources, ppd_keys, i + 1, cur, pkgs)

RECURSIVE BundleLoop(_, _, _, _)
\* the loop over the bundles
BundleLoop(bs, i, cur, pkgs) ==
    IF i > Len(bs) THEN pkgs
    ELSE IF ~IsSome(bs[i].entry)
    THEN BundleLoop(bs, i + 1, cur, pkgs)
    ELSE LET resources == BuildResources(Unwrap(bs[i].entry), 1, EmptyMap)
         IN  BundleLoop(bs, i + 1, cur,
                        PpdLoop(resources, PpdKeys(resources), 1, cur, pkgs))

ProcessBundles(bs, cur) == BundleLoop(bs, 1, cur, EmptyMap)

\* whether process_bundles panics: some product with a GTIN has a relevant
\* authorization with a price extension whose change date cannot be sliced
ProcessBundlesPanics(bs) ==
    \E b \in DOMAIN bs :
        /\ IsSome(bs[b].entry)
        /\ LET resources == BuildResources(Unwrap(bs[b].entry), 1, EmptyMap)
           IN  \E pk \in DOMAIN resources, ak \in DOMAIN resources :
                 /\ resources[pk].rtype = PPD
                 /\ IsSome(ExtractGtin(resources[pk]))
                 /\ Relevant(resources[ak], pk)
                 /\ IsSome(resources[ak].extension)
                 /\ \E e \in DOMAIN Unwrap(resources[ak].extension) :
                       LET ext == Unwrap(resources[ak].extension)[e]
                       IN  /\ ReachesParse(ext)
                           /\ ParseDateStrPanics(PriceFields(ext)[3])

-----------------------------------------------------------------------------
(* Specification SpecPrice: get_effective_price on every series.           *)

AllSeries ==
    UNION {[D -> PriceAmounts] : D \in SUBSET DateUniverse}

IdleExtract ==
    /\ bundles = <<>>
    /\ current_dt = DateList[1]
    /\ packages = EmptyMap

IdleRun ==
    /\ old_bundles = <<>>
    /\ new_bundles = <<>>
    /\ old_effective_date = DateList[1]
    /\ new_effective_date = DateList[1]
    /\ old_pkg = EmptyMap
    /\ new_pkg = EmptyMap
    /\ num_threads = 1
    /\ out = EmptyOut

IdlePrice ==
    /\ prices = EmptyMap
    /\ current = DateList[1]
    /\ price = 0

IdleLoad ==
    /\ content = NoneV
    /\ loaded = NotLoaded

IdleDate ==
    /\ fallback = DateList[1]
    /\ effective_date = NoneV

IdleIo ==
    /\ old_file = NoFile
    /\ new_file = NoFile
    /\ filter = NoneV
    /\ old_result = NoneV
    /\ new_result = NoneV
    /\ old_results = <<>>
    /\ new_results = <<>>
    /\ status = "running"
    /\ stdout = <<>>
    /\ written = NoneV

InitPrice ==
    /\ pc = "price"
    /\ prices \in AllSeries
    /\ current \in DateUniverse
    /\ price = 0
    /\ IdleExtract
    /\ IdleRun
    /\ IdleLoad
    /\ IdleDate
    /\ IdleIo

CallGetEffectivePrice ==
    /\ pc = "price"
    /\ price' = GetEffectivePrice(prices, current)
    /\ pc' = "price_done"
    /\ UNCHANGED <<prices, current, extractVars, runVars, loadVars, dateVars,
                   ioVars>>

NextPrice == CallGetEffectivePrice

SpecPrice == InitPrice /\ [][NextPrice]_vars

\* the change dates of the series that are not after the reference date
Eligible == {d \in DOMAIN prices : DateLe(d, current)}

\* C1: get_effective_price returns the amount stored at the greatest
\* changeDate that is <= the reference date, and 0 when the series is empty
\* or every changeDate is later than the reference date.
C1_EffectivePrice ==
    pc = "price_done" =>
        /\ Eligible = {} => price = 0
        /\ \A d \in Eligible :
              (\A e \in Eligible : DateLe(e, d)) => price = prices[d]

\* a series with samples before, on and after the reference date was resolved
C1_Witness ==
    /\ pc = "price_done"
    /\ current \in DOMAIN prices
    /\ \E d \in DOMAIN prices : DateLt(d, current) /\ prices[d] # prices[current]
    /\ \E d \in DOMAIN prices : DateLt(current, d) /\ prices[d] # prices[current]

-----------------------------------------------------------------------------
(* Documents of the checked instances.                                     *)

Identifier(system, value) == [system |-> system, value |-> value]

Product(id, identifier, description, div) ==
    [rtype |-> PPD, id |-> id, identifier |-> identifier,
     description |-> description, div |-> div,
     coding |-> NoneV, subject |-> "", extension |-> NoneV]

Authorization(id, codes, subject, extension) ==
    [rtype |-> RA, id |-> id, identifier |-> NoneV,
     description |-> NoneV, div |-> NoneV,
     coding |-> Some(codes), subject |-> subject, extension |-> extension]

SubExt(url, code, money, date) ==
    [url |-> url, code |-> code, money |-> money, date |-> date]

\* a price extension with its three sub-values
PriceExt(code, money, date) ==
    [url |-> ProductPriceUrl,
     extension |-> Some(<<SubExt("type", code, 0, <<>>),
                          SubExt("value", "", money, <<>>),
                          SubExt("changeDate", "", 0, date)>>)]

Bundle(entries) ==
    [timestamp |-> NoneV, lastUpdated |-> NoneV, entry |-> Some(entries)]

\* "7680123456785" and "7680000000019"
GtinA == GtinPrefix \o <<"1", "2", "3", "4", "5", "6", "7", "8", "5">>
GtinB == GtinPrefix \o <<"0", "0", "0", "0", "0", "0", "0", "1", "9">>
\* "7680ABCDEFGHI": 13 bytes, 13 characters, nine of them letters
GtinAlpha == GtinPrefix \o <<"A", "B", "C", "D", "E", "F", "G", "H", "I">>
\* "7680" + four times U+00E9 + "1": 13 bytes, 9 characters
GtinUtf8 == GtinPrefix \o <<EAcute, EAcute, EAcute, EAcute, "1">>
\* "768012345678": 12 bytes
GtinShort == GtinPrefix \o <<"1", "2", "3", "4", "5", "6", "7", "8">>
\* "7612345678901": another prefix
GtinOther == <<"7", "6", "1", "2", "3", "4", "5", "6", "7", "8", "9", "0", "1">>

\* "202" + U+00E9 + "-01-01": byte offset 4 lies inside a character
DateOffBoundary == <<"2", "0", "2", EAcute, "-", "0", "1", "-", "0", "1">>
\* "2026-1-6": shorter than 10 bytes
DateShort == <<"2", "0", "2", "6", "-", "1", "-", "6">>

\* entries for process_bundles: products that share a GTIN or a resource
\* key, GTIN values of every shape, authorizations with and without prices
ExtractPool ==
    << Some(Product("1", Some(<<Identifier(GtinSystem, GtinA)>>),
                   Some("Drug A"), NoneV)),
      Some(Product("2", Some(<<Identifier(GtinSystem, GtinA)>>),
                   NoneV, Some("Drug B"))),
      Some(Product("2", Some(<<Identifier("urn:oid:other", GtinB),
                               Identifier(GtinSystem, GtinShort),
                               Identifier(GtinSystem, GtinAlpha),
                               Identifier(GtinSystem, GtinB)>>),
                   NoneV, NoneV)),
      Some(Product("3", Some(<<Identifier(GtinSystem, GtinOther),
                               Identifier(GtinSystem, GtinUtf8)>>),
                   Some("Drug C"), NoneV)),
      Some(Product("3", Some(<<Identifier(GtinSystem, GtinOther)>>),
                   Some("Drug C"), NoneV)),
      Some(Authorization("1", <<SlCode>>, ResourceKey(PPD, "1"),
                         Some(<<PriceExt(RetailCode, 100000, IsoDate(DateList[1]))>>))),
      Some(Authorization("2", <<"756000002001", SlCode>>, ResourceKey(PPD, "2"),
                         NoneV)),
      Some(Authorization("3", <<SlCode>>, ResourceKey(PPD, "3"),
                         Some(<<PriceExt(ExfactoryCode, 125000, IsoDate(DateList[3])),
                                PriceExt(RetailCode, 100000, DateShort)>>))),
      Some(Authorization("1", <<"756000002001">>, ResourceKey(PPD, "1"),
                         Some(<<PriceExt(RetailCode, 125000, IsoDate(DateList[1]))>>))),
      Some(Authorization("2", <<SlCode>>, ResourceKey(PPD, "1"),
                         Some(<<PriceExt(RetailCode, 125000, DateOffBoundary)>>))) >>

\* reference date: on the first change date of the pool and before the
\* latest one, so the pool holds both an effective and a future price
ExtractDates == {DateList[1]}

RECURSIVE SplitAt(_, _, _, _)
\* the bundles of the entry sequence es cut after the positions in cuts;
\* i is the next entry and cur the entries of the bundle being filled
SplitAt(es, cuts, i, cur) ==
    IF i > Len(es) THEN (IF cur = <<>> THEN <<>> ELSE <<Bundle(cur)>>)
    ELSE IF i \in cuts
    THEN <<Bundle(Append(cur, es[i]))>> \o SplitAt(es, cuts, i + 1, <<>>)
    ELSE SplitAt(es, cuts, i + 1, Append(cur, es[i]))

\* whether bs is a sequence of non-empty bundles holding n entries of the
\* pool, chosen by idx and cut into bundles after the positions in cuts
BundlesOf(pool, n, idx, cuts) ==
    SplitAt([i \in 1..n |-> pool[idx[i]]], cuts, 1, <<>>)

-----------------------------------------------------------------------------
(* Specification SpecExtract: process_bundles on every bundle sequence.    *)

InitExtract ==
    /\ pc = "extract"
    /\ \E n \in 0..MaxEntries :
          \E idx \in [1..n -> DOMAIN ExtractPool], cuts \in SUBSET (1..(n - 1)) :
              bundles = BundlesOf(ExtractPool, n, idx, cuts)
    /\ current_dt \in ExtractDates
    /\ packages = EmptyMap
    /\ IdlePrice
    /\ IdleRun
    /\ IdleLoad
    /\ IdleDate
    /\ IdleIo

\* process_bundles returns its PackageMap
ProcessBundlesReturns ==
    /\ pc = "extract"
    /\ ~ProcessBundlesPanics(bundles)
    /\ packages' = ProcessBundles(bundles, current_dt)
    /\ pc' = "extract_done"
    /\ UNCHANGED <<bundles, current_dt, priceVars, runVars, loadVars, dateVars,
                   ioVars>>

\* process_bundles panics in parse_date_str and returns nothing
ProcessBundlesAborts ==
    /\ pc = "extract"
    /\ ProcessBundlesPanics(bundles)
    /\ pc' = "extract_panic"
    /\ UNCHANGED <<bundles, current_dt, packages, priceVars, runVars,
                   loadVars, dateVars, ioVars>>

NextExtract == ProcessBundlesReturns \/ ProcessBundlesAborts

SpecExtract == InitExtract /\ [][NextExtract]_vars

\* the resource index process_bundles builds for bundle b
IndexOf(bs, b) == BuildResources(Unwrap(bs[b].entry), 1, EmptyMap)

\* the indexed products that carry a qualifying GTIN, each as a record of
\* its bundle, its resource key, its GTIN, and whether the values resolved
\* for it have retailPrice > 0 or exfactoryPrice > 0 or
\* hasReimbursementEntry
ProductsWithGtin(bs, cur) ==
    UNION {LET resources == IndexOf(bs, b)
           IN  {LET info == ResolveInfo(resources, k, cur)
                IN  [bundle |-> b, key |-> k,
                     gtin |-> Unwrap(ExtractGtin(resources[k])),
                     meets |-> \/ info.retail_price > 0
                               \/ info.exfactory_price > 0
                               \/ info.has_sl_entry] :
                k \in {j \in DOMAIN resources :
                          /\ resources[j].rtype = PPD
                          /\ IsSome(ExtractGtin(resources[j]))}} :
           b \in DOMAIN bs}

\* C2 as stated: a ProductDefinition with a qualifying GTIN is present in
\* the PackageMap returned by process_bundles if and only if its resolved
\* retailPrice > 0 or its resolved exfactoryPrice > 0 or its
\* hasReimbursementEntry is true.
C2_PresentIffRetained ==
    pc = "extract_done" =>
        \A p \in ProductsWithGtin(bundles, current_dt) :
            p.gtin \in DOMAIN packages <=> p.meets

\* C2 as amended: a GTIN is a key of the PackageMap returned by
\* process_bundles if and only if some ProductDefinition carrying it as its
\* qualifying GTIN has resolved retailPrice > 0 or exfactoryPrice > 0 or
\* hasReimbursementEntry true; for a ProductDefinition whose GTIN no other
\* ProductDefinition of the sequence carries, that is the claim as stated.
C2_KeyIffSomeRetained ==
    pc = "extract_done" =>
        LET products == ProductsWithGtin(bundles, current_dt)
        IN  /\ \A g \in DOMAIN packages :
                  \E p \in products : p.gtin = g /\ p.meets
            /\ \A p \in products : p.meets => p.gtin \in DOMAIN packages
            /\ \A p \in products :
                  (\A q \in products \ {p} : q.gtin # p.gtin)
                      => (p.gtin \in DOMAIN packages <=> p.meets)

\* one product was kept for its reimbursement entry alone, without a price,
\* and another product with a GTIN was dropped
C2_Witness ==
    /\ pc = "extract_done"
    /\ \E g \in DOMAIN packages :
          /\ packages[g].retail_price = 0
          /\ packages[g].exfactory_price = 0
          /\ packages[g].has_sl_entry
    /\ \E p \in ProductsWithGtin(bundles, current_dt) :
          p.gtin \notin DOMAIN packages

\* C3: every key of every PackageMap produced by process_bundles is 13
\* characters long and begins with the fixed prefix 7680.
C3_KeysThirteenChars ==
    pc = "extract_done" =>
        \A g \in DOMAIN packages : Len(g) = 13 /\ StartsWith(g, GtinPrefix)

\* C4: every gtin that survives extraction into a snapshot consists of
\* exactly 13 decimal digits, starting with the fixed prefix.
C4_KeysThirteenDigits ==
    pc = "extract_done" =>
        \A g \in DOMAIN packages :
            /\ Cardinality({i \in DOMAIN g : IsDigit(g[i])}) = 13
            /\ \A i \in DOMAIN g : IsDigit(g[i])
            /\ StartsWith(g, GtinPrefix)

-----------------------------------------------------------------------------
(* numeric_flags                                                           *)

\* numeric_flags::NEW (NEW is a keyword here)
FLAG_NEW == 1
SL_ENTRY_DELETE == 2
NAME_BASE == 3
SL_ENTRY == 10
PRICE == 11
PRICE_RISE == 13
DELETE == 14
PRICE_CUT == 15
NOT_SPECIFIED == 16

\* the threshold 0.001 of a price change, in 1/10000 units
PriceEpsilon == 10

-----------------------------------------------------------------------------
(* run_foph_diff: the categories.  A collected Vec keeps the key order of  *)
(* the PackageMap it was computed from; a JSON null is None.               *)

\* if p > 0.0 { json!(p) } else { Value::Null }
PriceOrNull(p) == IF p > 0 THEN Some(p) ELSE NoneV

PackageRecord(gtin, info, flag) ==
    [gtin |-> gtin, name |-> info.name, flags |-> <<flag>>,
     retail_price |-> PriceOrNull(info.retail_price),
     exfactory_price |-> PriceOrNull(info.exfactory_price)]

\* the new packages with the filter lost
NewPackagesUnfiltered(old, new) ==
    LET keys == SortedStrs(DOMAIN new)
    IN  [i \in 1..Len(keys) |-> PackageRecord(keys[i], new[keys[i]], FLAG_NEW)]

\* 1. new packages
NewPackages(old, new) ==
    LET keys == SelectSeq(SortedStrs(DOMAIN new), LAMBDA g : g \notin DOMAIN old)
    IN  [i \in 1..Len(keys) |-> PackageRecord(keys[i], new[keys[i]], FLAG_NEW)]

\* the deletions with the filter's negation lost
PackageDeletionsKept(old, new) ==
    LET keys == SelectSeq(SortedStrs(DOMAIN old), LAMBDA g : g \in DOMAIN new)
    IN  [i \in 1..Len(keys) |-> PackageRecord(keys[i], old[keys[i]], DELETE)]

\* 14. package deletions
PackageDeletions(old, new) ==
    LET keys == SelectSeq(SortedStrs(DOMAIN old), LAMBDA g : g \notin DOMAIN new)
    IN  [i \in 1..Len(keys) |-> PackageRecord(keys[i], old[keys[i]], DELETE)]

SlRecord(gtin, info, flag) ==
    [gtin |-> gtin, name |-> info.name, flags |-> <<flag>>]

\* the additions with the test of the old entry lost
SlEntryAdditionsAnyOld(old, new) ==
    LET keys == SelectSeq(SortedStrs(DOMAIN new),
                    LAMBDA g : g \in DOMAIN old /\ new[g].has_sl_entry)
    IN  [i \in 1..Len(keys) |-> SlRecord(keys[i], new[keys[i]], SL_ENTRY)]

\* 10. SL entry additions
SlEntryAdditions(old, new) ==
    LET keys == SelectSeq(SortedStrs(DOMAIN new),
                    LAMBDA g : /\ g \in DOMAIN old
                               /\ ~old[g].has_sl_entry /\ new[g].has_sl_entry)
    IN  [i \in 1..Len(keys) |-> SlRecord(keys[i], new[keys[i]], SL_ENTRY)]

\* 2. SL entry deletions
SlEntryDeletions(old, new) ==
    LET keys == SelectSeq(SortedStrs(DOMAIN new),
                    LAMBDA g : /\ g \in DOMAIN old
                               /\ old[g].has_sl_entry /\ ~new[g].has_sl_entry)
    IN  [i \in 1..Len(keys) |-> SlRecord(keys[i], new[keys[i]], SL_ENTRY_DELETE)]

\* the name changes with old_name taken from the new snapshot
NameChangesNewOnly(old, new) ==
    LET keys == SelectSeq(SortedStrs(DOMAIN new),
                    LAMBDA g : g \in DOMAIN old /\ old[g].name # new[g].name)
    IN  [i \in 1..Len(keys) |->
            [gtin |-> keys[i], name |-> new[keys[i]].name, flags |-> <<NAME_BASE>>,
             old_name |-> new[keys[i]].name, new_name |-> new[keys[i]].name]]

\* 3. name changes
NameChanges(old, new) ==
    LET keys == SelectSeq(SortedStrs(DOMAIN new),
                    LAMBDA g : g \in DOMAIN old /\ old[g].name # new[g].name)
    IN  [i \in 1..Len(keys) |->
            [gtin |-> keys[i], name |-> new[keys[i]].name, flags |-> <<NAME_BASE>>,
             old_name |-> old[keys[i]].name, new_name |-> new[keys[i]].name]]

\* the threshold test with >= for >
PriceChangedInclusive(old_p, new_p) == Abs(new_p - old_p) >= PriceEpsilon

\* the threshold test without .abs(): only a rise is a change
PriceChangedRiseOnly(old_p, new_p) == new_p - old_p > PriceEpsilon

\* (new_p - old_p).abs() > 0.001
PriceChanged(old_p, new_p) == Abs(new_p - old_p) > PriceEpsilon

\* the price record with both prices written as numbers, never as null
PriceRecordNeverNull(gtin, name, ptype, old_p, new_p) ==
    [gtin |-> gtin, name |-> name,
     flags |-> IF new_p - old_p > 0 THEN <<PRICE, PRICE_RISE>>
                                    ELSE <<PRICE, PRICE_CUT>>,
     type |-> ptype,
     old_price |-> Some(old_p), new_price |-> Some(new_p),
     difference |-> new_p - old_p]

\* the price record with a cut flagged not_specified
PriceRecordCutUnspecified(gtin, name, ptype, old_p, new_p) ==
    [gtin |-> gtin, name |-> name,
     flags |-> IF new_p - old_p > 0 THEN <<PRICE, PRICE_RISE>>
                                    ELSE <<PRICE, NOT_SPECIFIED>>,
     type |-> ptype,
     old_price |-> PriceOrNull(old_p), new_price |-> PriceOrNull(new_p),
     difference |-> new_p - old_p]

PriceRecord(gtin, name, ptype, old_p, new_p) ==
    [gtin |-> gtin, name |-> name,
     flags |-> IF new_p - old_p > 0 THEN <<PRICE, PRICE_RISE>>
                                    ELSE <<PRICE, PRICE_CUT>>,
     type |-> ptype,
     old_price |-> PriceOrNull(old_p), new_price |-> PriceOrNull(new_p),
     difference |-> new_p - old_p]

\* the changes of one package: retail first, then exfactory
ChangesOf(gtin, old_info, new_info) ==
    (IF PriceChanged(old_info.retail_price, new_info.retail_price)
     THEN <<PriceRecord(gtin, new_info.name, "retail",
                        old_info.retail_price, new_info.retail_price)>>
     ELSE <<>>)
    \o
    (IF PriceChanged(old_info.exfactory_price, new_info.exfactory_price)
     THEN <<PriceRecord(gtin, new_info.name, "exfactory",
                        old_info.exfactory_price, new_info.exfactory_price)>>
     ELSE <<>>)

RECURSIVE FlattenChanges(_, _, _, _)
\* filter_map over new_pkg, flattened
FlattenChanges(keys, i, old, new) ==
    IF i > Len(keys) THEN <<>>
    ELSE IF keys[i] \in DOMAIN old
    THEN ChangesOf(keys[i], old[keys[i]], new[keys[i]])
            \o FlattenChanges(keys, i + 1, old, new)
    ELSE FlattenChanges(keys, i + 1, old, new)

\* 11/13/15. price changes
PriceChanges(old, new) == FlattenChanges(SortedStrs(DOMAIN new), 1, old, new)

\* the loop over price_changes with the direction of the change ignored
BucketAnyDirection(changes, ptype, up) ==
    SelectSeq(changes, LAMBDA c : c.type = ptype)

\* the changes the loop over price_changes pushes to one of the four arrays
Bucket(changes, ptype, up) ==
    SelectSeq(changes, LAMBDA c : c.type = ptype /\ (c.difference > 0) = up)

\* the nine category arrays
Categories(old, new) ==
    LET changes == PriceChanges(old, new)
    IN  [new |-> NewPackages(old, new),
         del |-> PackageDeletions(old, new),
         sl_entry |-> SlEntryAdditions(old, new),
         sl_entry_delete |-> SlEntryDeletions(old, new),
         name_base |-> NameChanges(old, new),
         retail_up |-> Bucket(changes, "retail", TRUE),
         retail_down |-> Bucket(changes, "retail", FALSE),
         exfactory_up |-> Bucket(changes, "exfactory", TRUE),
         exfactory_down |-> Bucket(changes, "exfactory", FALSE)]

CategoryNames ==
    {"new", "del", "sl_entry", "sl_entry_delete", "name_base",
     "retail_up", "retail_down", "exfactory_up", "exfactory_down"}

-----------------------------------------------------------------------------
(* Specification SpecDiff: the categories of every pair of PackageMaps.    *)
(* The diff is a function of the two maps alone; it is checked over every  *)
(* PackageInfo the type admits, whether or not process_bundles builds it.  *)

DiffGtins == {GtinA, GtinB}

\* <<retail, exfactory>> prices: the retail prices 10.0000, 10.0010 and
\* 10.0019 differ by less than, exactly, and more than 0.001, retail 12.50
\* is a rise from 10.00 at the same exfactory price, an exfactory price of 0
\* is an absent one, and either price may rise or fall while the other
\* rises, falls or stays
DiffPrices ==
    {<<100000, 100000>>, <<100010, 100000>>, <<100019, 0>>, <<125000, 100000>>}

DiffInfos ==
    {[name |-> n, retail_price |-> p[1], exfactory_price |-> p[2],
      has_sl_entry |-> h] :
        n \in {"Drug A", "Drug B"}, p \in DiffPrices, h \in BOOLEAN}

\* a record slot: a GTIN of the old or of the new map
DiffSlots == {"old", "new"} \X DiffGtins

MapOf(side, fill) ==
    [g \in {s[2] : s \in {t \in DOMAIN fill : t[1] = side}} |-> fill[<<side, g>>]]

\* every assignment of PackageInfos to at most MaxPackages slots
DiffFills ==
    UNION {[S -> DiffInfos] :
           S \in {T \in SUBSET DiffSlots : Cardinality(T) <= MaxPackages}}

InitDiff ==
    /\ pc = "diff"
    /\ \E fill \in DiffFills :
          /\ old_pkg = MapOf("old", fill)
          /\ new_pkg = MapOf("new", fill)
    /\ old_bundles = <<>>
    /\ new_bundles = <<>>
    /\ old_effective_date = DateList[1]
    /\ new_effective_date = DateList[1]
    /\ num_threads = 1
    /\ out = EmptyOut
    /\ IdlePrice
    /\ IdleExtract
    /\ IdleLoad
    /\ IdleDate
    /\ IdleIo

\* the nine categories are computed from the two PackageMaps
ComputeCategories ==
    /\ pc = "diff"
    /\ out' = Categories(old_pkg, new_pkg)
    /\ pc' = "diff_done"
    /\ UNCHANGED <<old_bundles, new_bundles, old_effective_date,
                   new_effective_date, old_pkg, new_pkg, num_threads,
                   priceVars, extractVars, loadVars, dateVars, ioVars>>

NextDiff == ComputeCategories

SpecDiff == InitDiff /\ [][NextDiff]_vars

\* the number of records of an array that carry gtin g
CountOf(arr, g) == Cardinality({i \in DOMAIN arr : arr[i].gtin = g})

GtinsIn(arr) == {arr[i].gtin : i \in DOMAIN arr}

InBoth == DOMAIN old_pkg \cap DOMAIN new_pkg

\* C5: a gtin that is a key of the old PackageMap and not a key of the new
\* PackageMap appears in the del array exactly once, with flags [14], and
\* appears in none of the other eight category arrays.
C5_DeletedOnce ==
    pc = "diff_done" =>
        \A g \in DOMAIN old_pkg \ DOMAIN new_pkg :
            /\ CountOf(out.del, g) = 1
            /\ \A i \in DOMAIN out.del :
                  out.del[i].gtin = g => out.del[i].flags = <<14>>
            /\ \A c \in CategoryNames \ {"del"} : CountOf(out[c], g) = 0

\* a package was deleted while another, present in both maps, changed
C5_Witness ==
    /\ pc = "diff_done"
    /\ out.del # <<>>
    /\ out.name_base # <<>>
    /\ out.retail_up # <<>>

\* C6: the new array contains a record for gtin G if and only if G is a key
\* of the new PackageMap and not a key of the old PackageMap; each such G
\* has exactly one record and its flags are [1].
C6_NewIff ==
    pc = "diff_done" =>
        /\ GtinsIn(out.new) = DOMAIN new_pkg \ DOMAIN old_pkg
        /\ \A g \in GtinsIn(out.new) : CountOf(out.new, g) = 1
        /\ \A i \in DOMAIN out.new : out.new[i].flags = <<1>>

\* one package is new and another is present in both maps
C6_Witness ==
    /\ pc = "diff_done"
    /\ out.new # <<>>
    /\ InBoth # {}

\* C7: for every gtin present in both PackageMaps, the diff puts it in
\* sl_entry (flags [10]) exactly when hasReimbursementEntry is false in old
\* and true in new, and in sl_entry_delete (flags [2]) exactly when it is
\* true in old and false in new; a gtin is never in both arrays and a gtin
\* with unchanged hasReimbursementEntry is in neither.
C7_SlEntryIff ==
    pc = "diff_done" =>
        /\ \A g \in InBoth :
              /\ g \in GtinsIn(out.sl_entry)
                    <=> (~old_pkg[g].has_sl_entry /\ new_pkg[g].has_sl_entry)
              /\ g \in GtinsIn(out.sl_entry_delete)
                    <=> (old_pkg[g].has_sl_entry /\ ~new_pkg[g].has_sl_entry)
              /\ old_pkg[g].has_sl_entry = new_pkg[g].has_sl_entry
                    => g \notin GtinsIn(out.sl_entry) \cup GtinsIn(out.sl_entry_delete)
        /\ GtinsIn(out.sl_entry) \cap GtinsIn(out.sl_entry_delete) = {}
        /\ \A i \in DOMAIN out.sl_entry : out.sl_entry[i].flags = <<10>>
        /\ \A i \in DOMAIN out.sl_entry_delete : out.sl_entry_delete[i].flags = <<2>>

\* a package gained its reimbursement entry between the two maps
C7_Witness ==
    /\ pc = "diff_done"
    /\ \E g \in InBoth : ~old_pkg[g].has_sl_entry /\ new_pkg[g].has_sl_entry
    /\ out.sl_entry # <<>>

\* C9: for every gtin present in both PackageMaps, name_base contains a
\* record for it if and only if the old and new name strings are not
\* exactly equal; the record has flags [3], old_name equal to the old
\* snapshot's name and new_name (and name) equal to the new snapshot's name.
C9_NameBaseIff ==
    pc = "diff_done" =>
        /\ \A g \in InBoth :
              g \in GtinsIn(out.name_base) <=> old_pkg[g].name # new_pkg[g].name
        /\ \A i \in DOMAIN out.name_base :
              LET r == out.name_base[i]
              IN  /\ r.gtin \in InBoth
                  /\ r.flags = <<3>>
                  /\ r.old_name = old_pkg[r.gtin].name
                  /\ r.new_name = new_pkg[r.gtin].name
                  /\ r.name = new_pkg[r.gtin].name

\* a package present in both maps changed its name
C9_Witness ==
    /\ pc = "diff_done"
    /\ \E g \in InBoth : old_pkg[g].name # new_pkg[g].name
    /\ out.name_base # <<>>

\* the price-change records of the four price arrays
PriceRecords ==
    Range(out.retail_up) \cup Range(out.retail_down)
        \cup Range(out.exfactory_up) \cup Range(out.exfactory_down)

\* the resolved price of one type in a PackageInfo
PriceField(info, ptype) ==
    IF ptype = "retail" THEN info.retail_price ELSE info.exfactory_price

\* C10: for every gtin and every price type (retail, exfactory), a
\* price-change record is emitted if and only if the gtin is in both
\* PackageMaps and the absolute difference between new and old resolved
\* price is strictly greater than 0.001; in particular a delta of 0.0009
\* produces no record for that gtin and type.
C10_PriceChangeIff ==
    pc = "diff_done" =>
        \A g \in DOMAIN old_pkg \cup DOMAIN new_pkg \cup {r.gtin : r \in PriceRecords},
           t \in {"retail", "exfactory"} :
            (\E r \in PriceRecords : r.gtin = g /\ r.type = t)
                <=> /\ g \in InBoth
                    /\ \/ PriceField(new_pkg[g], t) - PriceField(old_pkg[g], t) > 10
                       \/ PriceField(old_pkg[g], t) - PriceField(new_pkg[g], t) > 10

\* a retail price moved by 0.0009, which left no record, while the
\* exfactory price of the same package changed, which left one
C10_Witness ==
    /\ pc = "diff_done"
    /\ \E g \in InBoth :
          /\ new_pkg[g].retail_price - old_pkg[g].retail_price = 9
          /\ \E r \in PriceRecords : r.gtin = g /\ r.type = "exfactory"
          /\ ~\E r \in PriceRecords : r.gtin = g /\ r.type = "retail"

\* C11: retail and ex-factory are classified independently: for each gtin
\* and price type the pair lands in at most one of the up/down arrays of
\* that type; a record is in <type>_up with flags [11,13] exactly when it
\* has new > old, and in <type>_down with flags [11,15] exactly when it has
\* new < old; the same gtin may be in one retail array and one exfactory
\* array in the same run.
C11_UpDownPerType ==
    pc = "diff_done" =>
        /\ \A c \in {"retail_up", "retail_down", "exfactory_up", "exfactory_down"} :
              \A g \in GtinsIn(out[c]) : CountOf(out[c], g) = 1
        /\ GtinsIn(out.retail_up) \cap GtinsIn(out.retail_down) = {}
        /\ GtinsIn(out.exfactory_up) \cap GtinsIn(out.exfactory_down) = {}
        /\ \A r \in PriceRecords :
              LET old_p == PriceField(old_pkg[r.gtin], r.type)
                  new_p == PriceField(new_pkg[r.gtin], r.type)
                  up    == IF r.type = "retail" THEN out.retail_up
                                                ELSE out.exfactory_up
                  down  == IF r.type = "retail" THEN out.retail_down
                                                ELSE out.exfactory_down
              IN  /\ r.type \in {"retail", "exfactory"}
                  /\ r \in Range(up) <=> new_p > old_p
                  /\ r \in Range(down) <=> new_p < old_p
                  /\ r \in Range(up) => r.flags = <<11, 13>>
                  /\ r \in Range(down) => r.flags = <<11, 15>>
        /\ \A r \in Range(out.retail_up) \cup Range(out.retail_down) :
              r.type = "retail"
        /\ \A r \in Range(out.exfactory_up) \cup Range(out.exfactory_down) :
              r.type = "exfactory"

\* one package is in retail_up and in exfactory_down in the same run
C11_Witness ==
    /\ pc = "diff_done"
    /\ GtinsIn(out.retail_up) \cap GtinsIn(out.exfactory_down) # {}

\* C12: every price-change record carries difference = new resolved price
\* minus old resolved price, old_price equal to the old resolved price and
\* new_price equal to the new resolved price, a resolved price of 0 written
\* as null and a positive one as that number; a package whose retail price
\* alone rose has a single retail_up record and no record in any other
\* category.
C12_RecordFields ==
    pc = "diff_done" =>
        /\ \A r \in PriceRecords :
              LET old_p == PriceField(old_pkg[r.gtin], r.type)
                  new_p == PriceField(new_pkg[r.gtin], r.type)
              IN  /\ r.difference = new_p - old_p
                  /\ r.old_price = IF old_p = 0 THEN <<>> ELSE <<old_p>>
                  /\ r.new_price = IF new_p = 0 THEN <<>> ELSE <<new_p>>
        /\ \A g \in InBoth :
              (/\ new_pkg[g].retail_price - old_pkg[g].retail_price > 10
               /\ new_pkg[g].exfactory_price = old_pkg[g].exfactory_price
               /\ new_pkg[g].name = old_pkg[g].name
               /\ new_pkg[g].has_sl_entry = old_pkg[g].has_sl_entry)
                  => /\ CountOf(out.retail_up, g) = 1
                     /\ \A c \in CategoryNames \ {"retail_up"} :
                           CountOf(out[c], g) = 0

\* a retail price rose from 10.00 to 12.50 with nothing else changed
C12_Witness ==
    /\ pc = "diff_done"
    /\ \E r \in Range(out.retail_up) :
          /\ r.difference = 25000
          /\ r.old_price = <<100000>>
          /\ r.new_price = <<125000>>
          /\ new_pkg[r.gtin].name = old_pkg[r.gtin].name
          /\ new_pkg[r.gtin].has_sl_entry = old_pkg[r.gtin].has_sl_entry
          /\ new_pkg[r.gtin].exfactory_price = old_pkg[r.gtin].exfactory_price
          /\ \A c \in CategoryNames \ {"retail_up"} : CountOf(out[c], r.gtin) = 0

-----------------------------------------------------------------------------
(* run_foph_diff: the two snapshots, each processed in parallel chunks.    *)

Max(a, b) == IF a >= b THEN a ELSE b

\* std::cmp::max(1, bundles.len() / rayon::current_num_threads())
ChunkSize(bs, threads) == Max(1, Len(bs) \div threads)

RECURSIVE ParChunks(_, _)
\* par_chunks(size): consecutive chunks of size bundles, the last one shorter
ParChunks(bs, size) ==
    IF Len(bs) = 0 THEN <<>>
    ELSE IF Len(bs) <= size THEN <<bs>>
    ELSE <<SubSeq(bs, 1, size)>> \o ParChunks(SubSeq(bs, size + 1, Len(bs)), size)

\* m.extend(r) with the records of m kept
ExtendKeepsFirst(m, r) ==
    [g \in DOMAIN m \cup DOMAIN r |-> IF g \in DOMAIN m THEN m[g] ELSE r[g]]

\* m.extend(r): the records of r replace those of m
Extend(m, r) ==
    [g \in DOMAIN m \cup DOMAIN r |-> IF g \in DOMAIN r THEN r[g] ELSE m[g]]

RECURSIVE MergeResults(_, _, _, _)
\* the per-chunk PackageMaps, collected in chunk order and merged
MergeResults(chunks, i, cur, m) ==
    IF i > Len(chunks) THEN m
    ELSE MergeResults(chunks, i + 1, cur, Extend(m, ProcessBundles(chunks[i], cur)))

\* one closure of the second rayon::join
ProcessChunked(bs, cur, threads) ==
    MergeResults(ParChunks(bs, ChunkSize(bs, threads)), 1, cur, EmptyMap)

-----------------------------------------------------------------------------
(* Specification Spec: run_foph_diff from the loaded bundles of two files  *)
(* to the nine categories.                                                 *)

\* entries of a whole run: one product, its reimbursement entry with a
\* retail price of 10.00, and the same entry with a retail price of 12.50
RunPool ==
    << Some(Product("1", Some(<<Identifier(GtinSystem, GtinA)>>),
                    Some("Drug A"), NoneV)),
       Some(Authorization("1", <<SlCode>>, ResourceKey(PPD, "1"),
                          Some(<<PriceExt(RetailCode, 100000, IsoDate(DateList[1]))>>))),
       Some(Authorization("1", <<SlCode>>, ResourceKey(PPD, "1"),
                          Some(<<PriceExt(RetailCode, 125000, IsoDate(DateList[1]))>>))) >>

Init ==
    /\ pc = "process"
    /\ \E n \in 0..MaxRunEntries :
          \E idx \in [1..n -> DOMAIN RunPool], cuts \in SUBSET (1..(n - 1)) :
              old_bundles = BundlesOf(RunPool, n, idx, cuts)
    /\ \E n \in 0..MaxRunEntries :
          \E idx \in [1..n -> DOMAIN RunPool], cuts \in SUBSET (1..(n - 1)) :
              new_bundles = BundlesOf(RunPool, n, idx, cuts)
    /\ old_effective_date = DateList[1]
    /\ new_effective_date = DateList[1]
    /\ num_threads \in 1..MaxThreads
    /\ old_pkg = EmptyMap
    /\ new_pkg = EmptyMap
    /\ out = EmptyOut
    /\ IdlePrice
    /\ IdleExtract
    /\ IdleLoad
    /\ IdleDate
    /\ IdleIo

\* the first closure of the join: the chunks of the old file
ProcessOld ==
    /\ pc \in {"process", "process_new_done"}
    /\ ~ProcessBundlesPanics(old_bundles)
    /\ old_pkg' = ProcessChunked(old_bundles, old_effective_date, num_threads)
    /\ pc' = IF pc = "process" THEN "process_old_done" ELSE "diff"
    /\ UNCHANGED <<old_bundles, new_bundles, old_effective_date,
                   new_effective_date, new_pkg, num_threads, out,
                   priceVars, extractVars, loadVars, dateVars, ioVars>>

\* the second closure of the join: the chunks of the new file
ProcessNew ==
    /\ pc \in {"process", "process_old_done"}
    /\ ~ProcessBundlesPanics(new_bundles)
    /\ new_pkg' = ProcessChunked(new_bundles, new_effective_date, num_threads)
    /\ pc' = IF pc = "process" THEN "process_new_done" ELSE "diff"
    /\ UNCHANGED <<old_bundles, new_bundles, old_effective_date,
                   new_effective_date, old_pkg, num_threads, out,
                   priceVars, extractVars, loadVars, dateVars, ioVars>>

Next == ProcessOld \/ ProcessNew \/ ComputeCategories

Spec == Init /\ [][Next]_vars

\* the new file holds a product with GTIN g, and every such product
\* resolves to no reimbursement entry and no price
UnlistedInNew(g) ==
    LET products == {p \in ProductsWithGtin(new_bundles, new_effective_date) :
                        p.gtin = g}
    IN  products # {} /\ \A p \in products : ~p.meets

\* C8: when the old snapshot has gtin G with retail price 10 and
\* hasReimbursementEntry = true, and the new snapshot has the same gtin G
\* with hasReimbursementEntry = false and no resolvable price, the diff
\* contains exactly one sl_entry_delete record for G, and G appears in
\* neither del nor new.
C8_LostEntryIsSlEntryDelete ==
    pc = "diff_done" =>
        \A g \in DOMAIN old_pkg :
            (/\ old_pkg[g].retail_price = 100000
             /\ old_pkg[g].has_sl_entry
             /\ UnlistedInNew(g))
                => /\ CountOf(out.sl_entry_delete, g) = 1
                   /\ CountOf(out.del, g) = 0
                   /\ CountOf(out.new, g) = 0

-----------------------------------------------------------------------------
(* JSON text.  A text is a sequence of tokens: the characters the scanner  *)
(* and the parser act on ("{", "}", the quote, the backslash, ":", ",",    *)
(* space, "\n", "\r"), the characters of a date, words of ordinary         *)
(* characters (a word holds none of the former), and array tokens, each    *)
(* standing for the complete text of a well-formed JSON array.  The only   *)
(* escapes written in a string are \" and \\.                              *)

Quote == "\""
Backslash == "\\"
LF == "\n"
CR == "\r"
SP == " "

Whitespace == {SP, LF, CR}

\* a serde_json::Value: an object (members by key), a string, or an array
JObject(members) == [kind |-> "object", str |-> <<>>, members |-> members]
JString(str) == [kind |-> "string", str |-> str, members |-> EmptyMap]
JArray(token) == [kind |-> "array", str |-> <<token>>, members |-> EmptyMap]
JNull == [kind |-> "null", str |-> <<>>, members |-> EmptyMap]

\* a parse that failed
ParseFail == [ok |-> FALSE, next |-> 0, val |-> JNull]

\* a parse that read a value and stopped before token next
Parsed(next, val) == [ok |-> TRUE, next |-> next, val |-> val]

\* the entry arrays the array tokens stand for
EntryArrays ==
    [E0 |-> <<>>,
     E1 |-> << Some(Product("1", Some(<<Identifier(GtinSystem, GtinA)>>),
                            Some("Drug A"), NoneV)),
               Some(Authorization("1", <<SlCode>>, ResourceKey(PPD, "1"),
                        Some(<<PriceExt(RetailCode, 100000, IsoDate(DateList[1]))>>))) >>,
     E2 |-> << Some(Product("1", Some(<<Identifier(GtinSystem, GtinA)>>),
                            Some("Drug A"), NoneV)),
               Some(Authorization("1", <<SlCode>>, ResourceKey(PPD, "1"),
                        Some(<<PriceExt(RetailCode, 125000, IsoDate(DateList[1]))>>))) >>,
     E3 |-> << Some(Product("2", Some(<<Identifier(GtinSystem, GtinB)>>),
                            Some("Drug B"), NoneV)),
               Some(Authorization("2", <<SlCode>>, ResourceKey(PPD, "2"), NoneV)) >>,
     E4 |-> << Some(Product("1", Some(<<Identifier(GtinSystem, GtinA)>>),
                            Some("Drug A"), NoneV)),
               Some(Authorization("1", <<SlCode>>, ResourceKey(PPD, "1"),
                        Some(<<PriceExt(RetailCode, 100000, DateOffBoundary)>>))) >>,
     E5 |-> << Some(Product("1", Some(<<Identifier(GtinSystem, GtinA)>>),
                            Some("Drug A"), NoneV)),
               Some(Authorization("2", <<"756000002001">>, ResourceKey(PPD, "1"),
                        Some(<<PriceExt(RetailCode, 125000, IsoDate(DateList[1]))>>))) >>]

RECURSIVE SkipWs(_, _)
\* the position of the first token at or after i that is not whitespace
SkipWs(t, i) ==
    IF i <= Len(t) /\ t[i] \in Whitespace THEN SkipWs(t, i + 1) ELSE i

RECURSIVE StringLoop(_, _, _)
\* the string whose opening quote precedes token j; acc its characters so far
StringLoop(t, j, acc) ==
    IF j > Len(t) THEN ParseFail
    ELSE IF t[j] = Quote THEN Parsed(j + 1, JString(acc))
    ELSE IF t[j] = Backslash
    THEN IF j + 1 <= Len(t) /\ t[j + 1] \in {Quote, Backslash}
         THEN StringLoop(t, j + 2, Append(acc, t[j + 1]))
         ELSE ParseFail
    ELSE IF t[j] \in {LF, CR} THEN ParseFail
    ELSE StringLoop(t, j + 1, Append(acc, t[j]))

RECURSIVE ParseValue(_, _)
RECURSIVE ParseMembers(_, _, _)
\* the value that starts at token i
ParseValue(t, i) ==
    IF i > Len(t) THEN ParseFail
    ELSE IF t[i] = "{"
    THEN LET j == SkipWs(t, i + 1)
         IN  IF j <= Len(t) /\ t[j] = "}"
             THEN Parsed(j + 1, JObject(EmptyMap))
             ELSE ParseMembers(t, j, EmptyMap)
    ELSE IF t[i] = Quote THEN StringLoop(t, i + 1, <<>>)
    ELSE IF t[i] \in DOMAIN EntryArrays THEN Parsed(i + 1, JArray(t[i]))
    ELSE ParseFail

\* the members of an object from the key at token j on; a later member
\* replaces an earlier one of the same key
ParseMembers(t, j, acc) ==
    IF j > Len(t) \/ t[j] # Quote THEN ParseFail
    ELSE LET key == StringLoop(t, j + 1, <<>>)
         IN  IF ~key.ok THEN ParseFail
             ELSE LET c == SkipWs(t, key.next)
                  IN  IF c > Len(t) \/ t[c] # ":" THEN ParseFail
                      ELSE LET v == ParseValue(t, SkipWs(t, c + 1))
                           IN  IF ~v.ok THEN ParseFail
                               ELSE LET e == SkipWs(t, v.next)
                                        members == Insert(acc, key.val.str, v.val)
                                    IN  IF e > Len(t) THEN ParseFail
                                        ELSE IF t[e] = "}"
                                        THEN Parsed(e + 1, JObject(members))
                                        ELSE IF t[e] = ","
                                        THEN ParseMembers(t, SkipWs(t, e + 1), members)
                                        ELSE ParseFail

\* serde_json::from_str::<Value>: one value, whitespace around it, no more
FromStr(t) ==
    LET v == ParseValue(t, SkipWs(t, 1))
    IN  IF v.ok /\ SkipWs(t, v.next) > Len(t) THEN Some(v.val) ELSE NoneV

\* val.get(key) of an object, None of any other value
Get(val, key) ==
    IF val.kind = "object" /\ key \in DOMAIN val.members
    THEN Some(val.members[key]) ELSE NoneV

\* and_then(|v| v.as_str())
AsStr(o) == IF IsSome(o) /\ Unwrap(o).kind = "string" THEN Some(Unwrap(o).str) ELSE NoneV

\* val.get("resourceType").and_then(|v| v.as_str()) == Some("Bundle")
IsBundle(val) == AsStr(Get(val, <<"resourceType">>)) = Some(<<"Bundle">>)

\* the fields of a bundle document that the later stages read
AsBundle(val) ==
    LET meta == Get(val, <<"meta">>)
        entry == Get(val, <<"entry">>)
    IN  [timestamp |-> AsStr(Get(val, <<"timestamp">>)),
         lastUpdated |-> IF IsSome(meta)
                         THEN AsStr(Get(Unwrap(meta), <<"lastUpdated">>))
                         ELSE NoneV,
         entry |-> IF IsSome(entry) /\ Unwrap(entry).kind = "array"
                   THEN Some(EntryArrays[Unwrap(entry).str[1]])
                   ELSE NoneV]

-----------------------------------------------------------------------------
(* read_foph_bundles                                                       *)

\* content.lines(): the text between line feeds; a last line needs no line
\* feed.  (The "\r" lines() strips before a "\n" is stripped by trim too.)
\* ends holds, for every line, the position just after its last character.
Lines(t) ==
    LET feeds == {i \in 1..Len(t) : t[i] = LF}
        ends == feeds \cup (IF t # <<>> /\ t[Len(t)] # LF THEN {Len(t) + 1} ELSE {})
        first(e) == IF \E f \in feeds : f < e
                    THEN 1 + CHOOSE f \in feeds : f < e /\ \A g \in feeds : g < e => g <= f
                    ELSE 1
    IN  [k \in 1..Cardinality(ends) |->
            LET e == CHOOSE x \in ends : Cardinality({y \in ends : y <= x}) = k
            IN  SubSeq(t, first(e), e - 1)]

\* str::trim: the text from its first to its last character that is not
\* whitespace
Trim(t) ==
    LET keep == {i \in 1..Len(t) : t[i] \notin Whitespace}
    IN  IF keep = {} THEN <<>>
        ELSE SubSeq(t, CHOOSE i \in keep : \A j \in keep : i <= j,
                       CHOOSE i \in keep : \A j \in keep : j <= i)

RECURSIVE PrimaryLoopStopsAtError(_, _, _)
\* the line loop leaving at the first line that does not parse
PrimaryLoopStopsAtError(lines, i, bs) ==
    IF i > Len(lines) THEN bs
    ELSE LET line == Trim(lines[i])
             val == FromStr(line)
         IN  IF line = <<>> THEN PrimaryLoopStopsAtError(lines, i + 1, bs)
             ELSE IF ~IsSome(val) THEN bs
             ELSE IF IsBundle(Unwrap(val))
             THEN PrimaryLoopStopsAtError(lines, i + 1, Append(bs, AsBundle(Unwrap(val))))
             ELSE PrimaryLoopStopsAtError(lines, i + 1, bs)

RECURSIVE PrimaryLoop(_, _, _)
\* for line in content.lines(): the bundles pushed from line i on
PrimaryLoop(lines, i, bs) ==
    IF i > Len(lines) THEN bs
    ELSE LET line == Trim(lines[i])
             val == FromStr(line)
         IN  IF line = <<>> THEN PrimaryLoop(lines, i + 1, bs)
             ELSE IF IsSome(val) /\ IsBundle(Unwrap(val))
             THEN PrimaryLoop(lines, i + 1, Append(bs, AsBundle(Unwrap(val))))
             ELSE PrimaryLoop(lines, i + 1, bs)

\* the line-by-line pass
PrimaryPass(t) == PrimaryLoop(Lines(t), 1, <<>>)

\* the scanner before the first character
ScanStart ==
    [depth |-> 0, in_string |-> FALSE, escape |-> FALSE, start |-> NoneV,
     bundles |-> <<>>]

\* the bundles after the span t[s..=i] was isolated
PushSpan(t, s, i, bs) ==
    LET val == FromStr(SubSeq(t, s, i))
    IN  IF IsSome(val) /\ IsBundle(Unwrap(val))
        THEN Append(bs, AsBundle(Unwrap(val))) ELSE bs

\* one iteration of the loop with the backslash taken for an ordinary
\* character of a string
ScanStepNoEscape(t, i, st) ==
    IF st.in_string
    THEN IF t[i] = Quote THEN [st EXCEPT !.in_string = FALSE] ELSE st
    ELSE IF t[i] = Quote THEN [st EXCEPT !.in_string = TRUE]
    ELSE IF t[i] = "{"
    THEN [st EXCEPT !.start = IF st.depth = 0 THEN Some(i) ELSE st.start,
                    !.depth = st.depth + 1]
    ELSE IF t[i] = "}"
    THEN IF st.depth - 1 = 0 /\ IsSome(st.start)
         THEN [st EXCEPT !.depth = 0, !.start = NoneV,
                         !.bundles = PushSpan(t, Unwrap(st.start), i, st.bundles)]
         ELSE [st EXCEPT !.depth = st.depth - 1]
    ELSE st

\* one iteration of the loop over content.char_indices()
ScanStep(t, i, st) ==
    IF st.escape THEN [st EXCEPT !.escape = FALSE]
    ELSE IF st.in_string
    THEN IF t[i] = Backslash THEN [st EXCEPT !.escape = TRUE]
         ELSE IF t[i] = Quote THEN [st EXCEPT !.in_string = FALSE]
         ELSE st
    ELSE IF t[i] = Quote THEN [st EXCEPT !.in_string = TRUE]
    ELSE IF t[i] = "{"
    THEN [st EXCEPT !.start = IF st.depth = 0 THEN Some(i) ELSE st.start,
                    !.depth = st.depth + 1]
    ELSE IF t[i] = "}"
    THEN IF st.depth - 1 = 0 /\ IsSome(st.start)
         THEN [st EXCEPT !.depth = 0, !.start = NoneV,
                         !.bundles = PushSpan(t, Unwrap(st.start), i, st.bundles)]
         ELSE [st EXCEPT !.depth = st.depth - 1]
    ELSE st

RECURSIVE ScanLoop(_, _, _, _)
\* for (i, c) in content.char_indices(), over the positions lo..hi: the
\* iterations of the first half of the range, then, from the state they
\* leave, those of the second half
ScanLoop(t, lo, hi, st) ==
    IF lo > hi THEN st
    ELSE IF lo = hi THEN ScanStep(t, lo, st)
    ELSE LET mid == (lo + hi) \div 2
         IN  CHOOSE r \in {ScanLoop(t, mid + 1, hi, half) :
                               half \in {ScanLoop(t, lo, mid, st)}} : TRUE

\* content.retain(|c| c != '\n' && c != '\r')
Retain(t) == SelectSeq(t, LAMBDA c : c # LF /\ c # CR)

\* the span-scanning pass over the text without its line breaks
FallbackPass(t) ==
    LET text == Retain(t) IN ScanLoop(text, 1, Len(text), ScanStart).bundles

\* Err if bs is empty, else Ok(bs)
LoadResult(bs, primary, fallback_ran) ==
    [ok |-> bs # <<>>, bundles |-> bs, primary |-> primary,
     fallback_ran |-> fallback_ran]

\* read_foph_bundles without its second pass
ReadFophBundlesPrimaryOnly(file) ==
    IF ~IsSome(file) THEN NotLoaded
    ELSE LET primary == PrimaryPass(Unwrap(file))
         IN  [ok |-> primary # <<>>, bundles |-> primary, primary |-> primary,
              fallback_ran |-> FALSE]

\* read_foph_bundles with its second pass run on every file
ReadFophBundlesBothPasses(file) ==
    IF ~IsSome(file) THEN NotLoaded
    ELSE LET primary == PrimaryPass(Unwrap(file))
             bs == primary \o FallbackPass(Unwrap(file))
         IN  [ok |-> bs # <<>>, bundles |-> bs, primary |-> primary,
              fallback_ran |-> TRUE]

\* the result of read_foph_bundles on a text whose first pass found primary:
\* the second pass runs if bundles.is_empty()
AfterPrimary(primary, text) ==
    IF primary = <<>>
    THEN LoadResult(FallbackPass(text), primary, TRUE)
    ELSE LoadResult(primary, primary, FALSE)

\* read_foph_bundles: Err when the file cannot be read or no bundle is
\* found, else Ok(bundles); primary is bundles as the first pass left it
ReadFophBundles(file) ==
    IF ~IsSome(file) THEN NotLoaded
    ELSE AfterPrimary(PrimaryPass(Unwrap(file)), Unwrap(file))

-----------------------------------------------------------------------------
(* Specification SpecLoad: read_foph_bundles on every text made of up to   *)
(* MaxFragments fragments.                                                 *)

\* "key":"word"
StringMember(key, word) == <<Quote, key, Quote, ":", Quote, word, Quote>>

\* {"resourceType":"Bundle","entry":<array>}
BundleText(array) ==
    <<"{">> \o StringMember("resourceType", "Bundle")
        \o <<",", Quote, "entry", Quote, ":", array, "}">>

\* {"resourceType":"Bundle","note":"a\"}{"}: a string value that holds an
\* escaped quote and two braces
BundleTextBraces ==
    <<"{">> \o StringMember("resourceType", "Bundle")
        \o <<",", Quote, "note", Quote, ":",
             Quote, "a", Backslash, Quote, "}", "{", Quote, "}">>

\* {"resourceType":"Bundle","note":"{\\","entry":<E2>}: a string value that
\* holds a brace and ends with an escaped backslash
BundleTextBackslash ==
    <<"{">> \o StringMember("resourceType", "Bundle")
        \o <<",", Quote, "note", Quote, ":", Quote, "{", Backslash, Backslash, Quote,
             ",", Quote, "entry", Quote, ":", "E2", "}">>

\* {"resourceType":"Patient"}
PatientText == <<"{">> \o StringMember("resourceType", "Patient") \o <<"}">>

\* a bundle written over three lines, with indentation
PrettyBundleText ==
    <<"{", LF, SP, SP>> \o StringMember("resourceType", "Bundle")
        \o <<",", LF, SP, SP, Quote, "entry", Quote, ":", SP, "E1", LF, "}", LF>>

\* the fragments: four complete lines (a bundle, a bundle with a CR LF
\* ending, a document that is no bundle, noise), a bundle without a line
\* ending, a bundle over several lines, a lone closing brace, a line of
\* whitespace, and a bundle without a line ending whose string value ends
\* with an escaped backslash
LoadPool ==
    << BundleText("E0") \o <<LF>>,
       BundleTextBraces \o <<CR, LF>>,
       PatientText \o <<LF>>,
       <<"x", LF>>,
       BundleText("E0"),
       PrettyBundleText,
       <<"}">>,
       <<SP, LF>>,
       BundleTextBackslash >>

RECURSIVE Concat(_, _, _)
\* the fragments idx[i], idx[i + 1], ... of the pool, joined
Concat(pool, idx, i) ==
    IF i > Len(idx) THEN <<>> ELSE pool[idx[i]] \o Concat(pool, idx, i + 1)

InitLoad ==
    /\ pc = "load"
    /\ \/ content = NoneV
       \/ \E n \in 0..MaxFragments :
             \E idx \in [1..n -> DOMAIN LoadPool] :
                 content = Some(Concat(LoadPool, idx, 1))
    /\ loaded = NotLoaded
    /\ IdlePrice
    /\ IdleExtract
    /\ IdleRun
    /\ IdleDate
    /\ IdleIo

CallReadFophBundles ==
    /\ pc = "load"
    /\ loaded' = ReadFophBundles(content)
    /\ pc' = "load_done"
    /\ UNCHANGED <<content, priceVars, extractVars, runVars, dateVars, ioVars>>

NextLoad == CallReadFophBundles

SpecLoad == InitLoad /\ [][NextLoad]_vars

\* what each pass finds in the text of the file, run or not
FoundByPrimary == IF IsSome(content) THEN PrimaryPass(Unwrap(content)) ELSE <<>>
FoundByFallback == IF IsSome(content) THEN FallbackPass(Unwrap(content)) ELSE <<>>

\* C14: read_foph_bundles returns an error if and only if the primary
\* line-by-line pass and the fallback span pass together yield zero bundle
\* documents; whenever at least one bundle is found by either pass it
\* returns that non-empty bundle sequence.
C14_ErrorIffNoBundle ==
    pc = "load_done" =>
        LET primary == FoundByPrimary
            second == FoundByFallback
        IN  /\ ~loaded.ok <=> (primary = <<>> /\ second = <<>>)
            /\ loaded.ok =>
                  /\ loaded.bundles # <<>>
                  /\ loaded.bundles = IF primary # <<>> THEN primary ELSE second

\* a text with an object span in it gave no bundle to either pass, and the
\* call returned the error
C14_Witness ==
    /\ pc = "load_done"
    /\ ~loaded.ok
    /\ loaded.fallback_ran
    /\ IsSome(content)
    /\ \E i \in DOMAIN Unwrap(content) : Unwrap(content)[i] = "{"

\* what a line of the file is: "blank", "bundle" with its document, or
\* "other" (it does not parse, or parses to no bundle)
LineKind(line) ==
    LET trimmed == Trim(line)
        val == FromStr(trimmed)
    IN  IF trimmed = <<>> THEN [kind |-> "blank", doc |-> NoneV]
        ELSE IF IsSome(val) /\ IsBundle(Unwrap(val))
        THEN [kind |-> "bundle", doc |-> Some(AsBundle(Unwrap(val)))]
        ELSE [kind |-> "other", doc |-> NoneV]

\* the kinds of the lines of the file, in file order
LineKinds ==
    IF IsSome(content)
    THEN LET ls == Lines(Unwrap(content))
         IN  SubSeq([i \in DOMAIN ls |-> LineKind(ls[i])], 1, Len(ls))
    ELSE <<>>

\* the documents of the bundle lines among kinds, in file order
BundleLineDocs(kinds) ==
    LET kept == SelectSeq(kinds, LAMBDA k : k.kind = "bundle")
    IN  [i \in DOMAIN kept |-> Unwrap(kept[i].doc)]

\* C15: the fallback span-scanning pass runs only when the primary
\* line-by-line pass found zero bundles; if the primary pass found at least
\* one bundle, the returned sequence is exactly the bundles of the primary
\* pass in line order and no span of the text is parsed a second time.
C15_FallbackOnlyWhenEmpty ==
    pc = "load_done" =>
        /\ loaded.fallback_ran => loaded.primary = <<>>
        /\ loaded.primary # <<>> =>
              /\ loaded.ok
              /\ ~loaded.fallback_ran
              /\ loaded.bundles = loaded.primary
              /\ loaded.bundles = BundleLineDocs(LineKinds)

\* the primary pass found a bundle in a text whose spans hold more bundles
\* than its lines do
C15_Witness ==
    /\ pc = "load_done"
    /\ loaded.primary # <<>>
    /\ Len(FoundByFallback) > Len(loaded.primary)

\* C16: in the primary pass, every non-empty line that parses to a document
\* whose resourceType is Bundle is kept, in file order, and every line that
\* fails to parse or parses to a non-bundle is skipped without changing
\* which other lines are kept and without raising an error.
C16_PrimaryKeepsBundleLines ==
    pc = "load_done" /\ IsSome(content) =>
        LET docs == BundleLineDocs(LineKinds)
        IN  /\ loaded.primary = docs
            /\ docs # <<>> => loaded.ok /\ loaded.bundles = docs

\* two bundle lines were kept, in file order, around a line that is no
\* bundle
C16_Witness ==
    /\ pc = "load_done"
    /\ Len(loaded.primary) = 2
    /\ loaded.primary[1] # loaded.primary[2]
    /\ LET kinds == LineKinds
       IN  \E i, j, k \in DOMAIN kinds :
              /\ i < j /\ j < k
              /\ kinds[i].kind = "bundle"
              /\ kinds[j].kind = "other"
              /\ kinds[k].kind = "bundle"

-----------------------------------------------------------------------------
(* extract_date_from_bundles                                               *)

\* bundle.get("timestamp") as a string, or else meta.lastUpdated as one
TimestampOf(bundle) ==
    IF IsSome(bundle.timestamp) THEN bundle.timestamp ELSE bundle.lastUpdated

RECURSIVE TallyLoop(_, _, _)
\* for bundle in bundles: date_counts after the bundles from i on
TallyLoop(bs, i, date_counts) ==
    IF i > Len(bs) THEN date_counts
    ELSE LET ts == TimestampOf(bs[i])
             dt == IF IsSome(ts) THEN ParseDateStr(Unwrap(ts)) ELSE NoneV
         IN  IF IsSome(dt)
             THEN TallyLoop(bs, i + 1,
                     Insert(date_counts, Unwrap(dt),
                            IF Unwrap(dt) \in DOMAIN date_counts
                            THEN date_counts[Unwrap(dt)] + 1 ELSE 1))
             ELSE TallyLoop(bs, i + 1, date_counts)

RECURSIVE MaxByKeyLoop(_, _, _, _)
\* Iterator::max_by_key over the dates in key order: a later element
\* replaces the best one unless its count is smaller
MaxByKeyLoop(keys, i, date_counts, best) ==
    IF i > Len(keys) THEN best
    ELSE IF date_counts[keys[i]] >= date_counts[best]
    THEN MaxByKeyLoop(keys, i + 1, date_counts, keys[i])
    ELSE MaxByKeyLoop(keys, i + 1, date_counts, best)

\* date_counts.iter().max_by_key(|(_, count)| *count).unwrap().0
MostCommon(date_counts) ==
    LET keys == SortedDates(DOMAIN date_counts)
    IN  MaxByKeyLoop(keys, 2, date_counts, keys[1])

\* a timestamp is sliced off a character boundary
ExtractDatePanics(bs) ==
    \E i \in DOMAIN bs :
        /\ IsSome(TimestampOf(bs[i]))
        /\ ParseDateStrPanics(Unwrap(TimestampOf(bs[i])))

RECURSIVE FirstStamp(_, _, _)
\* the date of the first timestamp that parses
FirstStamp(bs, i, fallback_dt) ==
    IF i > Len(bs) THEN fallback_dt
    ELSE LET ts == TimestampOf(bs[i])
             dt == IF IsSome(ts) THEN ParseDateStr(Unwrap(ts)) ELSE NoneV
         IN  IF IsSome(dt) THEN Unwrap(dt) ELSE FirstStamp(bs, i + 1, fallback_dt)

\* the date taken from the first bundle that has one, not from the tally
ExtractDateOfFirstBundle(bs, fallback_dt) == FirstStamp(bs, 1, fallback_dt)

\* the fallback returned as soon as one bundle has no timestamp
ExtractDateFallbackIfAnyMissing(bs, fallback_dt) ==
    LET date_counts == TallyLoop(bs, 1, EmptyMap)
    IN  IF DOMAIN date_counts = {} \/ \E i \in DOMAIN bs : ~IsSome(TimestampOf(bs[i]))
        THEN fallback_dt
        ELSE MostCommon(date_counts)

\* the returned date, when no timestamp makes parse_date_str panic
ExtractDateFromBundles(bs, fallback_dt) ==
    LET date_counts == TallyLoop(bs, 1, EmptyMap)
    IN  IF DOMAIN date_counts = {} THEN fallback_dt ELSE MostCommon(date_counts)

-----------------------------------------------------------------------------
(* Specification SpecDate: extract_date_from_bundles on every sequence of  *)
(* up to MaxBundles bundles.                                               *)

\* a bundle document with the given timestamp and meta.lastUpdated
StampedBundle(timestamp, lastUpdated) ==
    [timestamp |-> timestamp, lastUpdated |-> lastUpdated, entry |-> NoneV]

\* "yyyy-mm-ddT08:00": a date followed by a time of day
IsoDateTime(dt) == IsoDate(dt) \o <<"T", "0", "8", ":", "0", "0">>

\* bundles without a timestamp, with a top-level one, with a nested one,
\* with both, with one too short to parse, and with one that cannot be
\* sliced
DatePool ==
    << StampedBundle(NoneV, NoneV),
       StampedBundle(Some(IsoDateTime(DateList[1])), NoneV),
       StampedBundle(Some(IsoDate(DateList[2])), NoneV),
       StampedBundle(NoneV, Some(IsoDateTime(DateList[1]))),
       StampedBundle(Some(IsoDate(DateList[3])), Some(IsoDate(DateList[1]))),
       StampedBundle(Some(DateShort), Some(IsoDate(DateList[2]))),
       StampedBundle(Some(DateOffBoundary), NoneV) >>

\* a fallback that is one of the dates of the pool, and one that is not
FallbackDates == {DateList[1], DateList[4]}

InitDate ==
    /\ pc = "date"
    /\ \E n \in 0..MaxBundles :
          \E idx \in [1..n -> DOMAIN DatePool] :
              bundles = [i \in 1..n |-> DatePool[idx[i]]]
    /\ fallback \in FallbackDates
    /\ effective_date = NoneV
    /\ current_dt = DateList[1]
    /\ packages = EmptyMap
    /\ IdlePrice
    /\ IdleRun
    /\ IdleLoad
    /\ IdleIo

ExtractDateReturns ==
    /\ pc = "date"
    /\ ~ExtractDatePanics(bundles)
    /\ effective_date' = Some(ExtractDateFromBundles(bundles, fallback))
    /\ pc' = "date_done"
    /\ UNCHANGED <<fallback, priceVars, extractVars, runVars, loadVars, ioVars>>

ExtractDateAborts ==
    /\ pc = "date"
    /\ ExtractDatePanics(bundles)
    /\ pc' = "date_panic"
    /\ UNCHANGED <<dateVars, priceVars, extractVars, runVars, loadVars, ioVars>>

NextDate == ExtractDateReturns \/ ExtractDateAborts

SpecDate == InitDate /\ [][NextDate]_vars

\* the dates of the timestamps of the bundles, one per bundle that has a
\* timestamp that parses
StampDates ==
    LET stamped == SelectSeq(bundles, LAMBDA b :
                      /\ IsSome(TimestampOf(b))
                      /\ IsSome(ParseDateStr(Unwrap(TimestampOf(b)))))
    IN  [i \in DOMAIN stamped |-> Unwrap(ParseDateStr(Unwrap(TimestampOf(stamped[i]))))]

\* the number of occurrences of date d in the sequence dates
Tally(dates, d) == Cardinality({i \in DOMAIN dates : dates[i] = d})

\* C17: extract_date_from_bundles returns a date whose tally of occurrences
\* over all bundle timestamps is maximal; when several dates share the
\* maximal tally the one returned is fixed by the natural (year, month,
\* day) tuple ordering of the tied dates (it is the greatest of them), so
\* the result is the same for every permutation of the bundle sequence.
C17_MostFrequentDate ==
    pc = "date_done" =>
        LET dates == StampDates
            winner == Unwrap(effective_date)
        IN  dates # <<>> =>
              /\ Tally(dates, winner) >= 1
              /\ \A d \in Range(dates) :
                    /\ Tally(dates, d) <= Tally(dates, winner)
                    /\ Tally(dates, d) = Tally(dates, winner) => DateLe(d, winner)

\* two dates are tied at the maximal tally, the first in the sequence is
\* not the one returned, and the returned one has the smaller month and day
C17_Witness ==
    /\ pc = "date_done"
    /\ LET dates == StampDates
       IN  /\ Len(dates) >= 2
           /\ dates[1] # Unwrap(effective_date)
           /\ Tally(dates, dates[1]) = Tally(dates, Unwrap(effective_date))
           /\ Unwrap(effective_date)[2] < dates[1][2]

\* C18: if no bundle in the sequence carries a timestamp (neither top-level
\* nor nested last-updated), extract_date_from_bundles returns the supplied
\* fallback date unchanged and does not fail; if at least one bundle
\* carries a parsable timestamp the fallback is never returned unless it
\* equals the winning date.
C18_FallbackOnlyWithoutStamp ==
    LET unstamped == \A i \in DOMAIN bundles : ~IsSome(TimestampOf(bundles[i]))
    IN  /\ unstamped => pc # "date_panic"
        /\ pc = "date" /\ unstamped => ENABLED ExtractDateReturns
        /\ pc = "date_done" =>
              LET dates == StampDates
              IN  /\ unstamped => effective_date = Some(fallback)
                  /\ dates # <<>> =>
                        /\ Unwrap(effective_date) \in Range(dates)
                        /\ \A d \in Range(dates) :
                              Tally(dates, d) <= Tally(dates, Unwrap(effective_date))

\* a sequence with a bundle without a timestamp and one with a parsable
\* timestamp returned a date that is not the fallback
C18_Witness ==
    /\ pc = "date_done"
    /\ \E i \in DOMAIN bundles : ~IsSome(TimestampOf(bundles[i]))
    /\ StampDates # <<>>
    /\ effective_date # Some(fallback)

-----------------------------------------------------------------------------
(* run_foph_diff from the two files to the end of the process.             *)

\* the value of a closure of the first rayon::join, from the result of
\* read_foph_bundles: its Err, or the bundles and their effective date
SnapshotOf(r, fallback_dt) ==
    IF r.ok
    THEN [ok |-> TRUE, bundles |-> r.bundles,
          effective_date |-> ExtractDateFromBundles(r.bundles, fallback_dt)]
    ELSE [ok |-> FALSE, bundles |-> <<>>, effective_date |-> fallback_dt]

\* one closure of the first rayon::join
LoadSnapshot(file) == SnapshotOf(ReadFophBundles(file.content), file.fallback_dt)

\* whether extract_date_from_bundles panics on the result
SnapshotPanics(r) == r.ok /\ ExtractDatePanics(r.bundles)

\* the closure panics in extract_date_from_bundles
LoadSnapshotPanics(file) == SnapshotPanics(ReadFophBundles(file.content))

\* the test of the two results with the second result ignored
LoadsFailedOldOnly(old_r, new_r) == ~old_r.ok

\* whether one of the two `?` after the join returns the error
LoadsFailed(old_r, new_r) == ~old_r.ok \/ ~new_r.ok

\* bundles.par_chunks(chunk_size)
ChunksOf(bs, threads) == ParChunks(bs, ChunkSize(bs, threads))

RECURSIVE ExtendAllReversed(_, _, _)
\* the results merged from the last chunk back to the first
ExtendAllReversed(results, i, m) ==
    IF i > Len(results) THEN m
    ELSE ExtendAllReversed(results, i + 1,
                           Extend(m, Unwrap(results[Len(results) + 1 - i])))

RECURSIVE ExtendAll(_, _, _)
\* for r in results { m.extend(r); }
ExtendAll(results, i, m) ==
    IF i > Len(results) THEN m
    ELSE ExtendAll(results, i + 1, Extend(m, Unwrap(results[i])))

\* the match on the filter with an unknown name taken for "new"
FilterCategoryDefaultsNew(cat) ==
    IF cat \in {"del", "delete"} THEN Some("del")
    ELSE IF cat = "sl_entry" THEN Some("sl_entry")
    ELSE IF cat = "sl_entry_delete" THEN Some("sl_entry_delete")
    ELSE IF cat \in {"name", "name_base", "productname"} THEN Some("name_base")
    ELSE IF cat \in {"retail_up", "price_rise_retail"} THEN Some("retail_up")
    ELSE IF cat \in {"retail_down", "price_cut_retail"} THEN Some("retail_down")
    ELSE IF cat \in {"exfactory_up", "price_rise_exfactory"} THEN Some("exfactory_up")
    ELSE IF cat \in {"exfactory_down", "price_cut_exfactory"} THEN Some("exfactory_down")
    ELSE Some("new")

\* the match on the filter with the two retail aliases exchanged
FilterCategoryRetailSwapped(cat) ==
    IF cat = "new" THEN Some("new")
    ELSE IF cat \in {"del", "delete"} THEN Some("del")
    ELSE IF cat = "sl_entry" THEN Some("sl_entry")
    ELSE IF cat = "sl_entry_delete" THEN Some("sl_entry_delete")
    ELSE IF cat \in {"name", "name_base", "productname"} THEN Some("name_base")
    ELSE IF cat \in {"retail_up", "price_cut_retail"} THEN Some("retail_up")
    ELSE IF cat \in {"retail_down", "price_rise_retail"} THEN Some("retail_down")
    ELSE IF cat \in {"exfactory_up", "price_rise_exfactory"} THEN Some("exfactory_up")
    ELSE IF cat \in {"exfactory_down", "price_cut_exfactory"} THEN Some("exfactory_down")
    ELSE NoneV

\* match cat { ... }: the category array a filter name selects, if any
FilterCategory(cat) ==
    IF cat = "new" THEN Some("new")
    ELSE IF cat \in {"del", "delete"} THEN Some("del")
    ELSE IF cat = "sl_entry" THEN Some("sl_entry")
    ELSE IF cat = "sl_entry_delete" THEN Some("sl_entry_delete")
    ELSE IF cat \in {"name", "name_base", "productname"} THEN Some("name_base")
    ELSE IF cat \in {"retail_up", "price_rise_retail"} THEN Some("retail_up")
    ELSE IF cat \in {"retail_down", "price_cut_retail"} THEN Some("retail_down")
    ELSE IF cat \in {"exfactory_up", "price_rise_exfactory"} THEN Some("exfactory_up")
    ELSE IF cat \in {"exfactory_down", "price_cut_exfactory"} THEN Some("exfactory_down")
    ELSE NoneV

\* the gtins printed for the items of a category
PrintedGtins(items) == [i \in DOMAIN items |-> items[i].gtin]

\* the legend written under "_flag_legend"
FlagLegend ==
    <<"new", "sl_entry_delete", "name_base", "address", "ikscat",
      "composition", "indication", "sequence", "expiry_date", "sl_entry",
      "price", "comment", "price_rise", "delete", "price_cut",
      "not_specified">>

\* the JSON object written to the output file
OutputObject(categories) == [flag_legend |-> FlagLegend, categories |-> categories]

\* the exit status of the process: 0 after Ok(()), 1 after an Err returned
\* to main or std::process::exit(1), 101 after a panic
ExitCode(st) ==
    IF st = "ok" THEN 0 ELSE IF st = "panic" THEN 101 ELSE 1

-----------------------------------------------------------------------------
(* Specification SpecRun: run_foph_diff on two files, a filter and a       *)
(* worker pool, the closures of each join and the chunks of each file      *)
(* taken in every order.                                                   *)

\* "key":"<characters>"
CharsMember(key, chars) == <<Quote, key, Quote, ":", Quote>> \o chars \o <<Quote>>

\* {"resourceType":"Bundle","timestamp":"<characters>","entry":<array>}
StampedBundleText(chars, array) ==
    <<"{">> \o StringMember("resourceType", "Bundle") \o <<",">>
        \o CharsMember("timestamp", chars)
        \o <<",", Quote, "entry", Quote, ":", array, "}">>

\* the texts of the files: none (the file cannot be read), noise, a price
\* of 10.00, a price of 12.50, two products, the same product in two
\* bundles, a bundle over several lines, a bundle dated before its price
\* changes, a timestamp that cannot be sliced, a change date that cannot be
\* sliced, a product whose priced authorization is no reimbursement entry
RunTexts ==
    << NoneV,
       Some(<<"x", LF>>),
       Some(BundleText("E1") \o <<LF>>),
       Some(BundleText("E2") \o <<LF>>),
       Some(BundleText("E1") \o <<LF>> \o BundleText("E3") \o <<LF>>),
       Some(BundleText("E1") \o <<LF>> \o BundleText("E2") \o <<LF>>),
       Some(PrettyBundleText),
       Some(StampedBundleText(IsoDateTime(DateList[2]), "E1") \o <<LF>>),
       Some(StampedBundleText(DateOffBoundary, "E0") \o <<LF>>),
       Some(BundleText("E4") \o <<LF>>),
       Some(BundleText("E5") \o <<LF>>) >>

RunFiles ==
    {[fallback_dt |-> DateList[1], content |-> RunTexts[i]] : i \in DOMAIN RunTexts}

\* no filter, a category name, an alias of one, and two unknown names, the
\* second one a name of the flag legend
RunFilters ==
    {NoneV, Some("del"), Some("price_rise_retail"), Some("bogus"), Some("price_rise")}

InitRun ==
    /\ pc = "run_load"
    /\ old_file \in RunFiles
    /\ new_file \in RunFiles
    /\ filter \in RunFilters
    /\ num_threads \in 1..MaxThreads
    /\ old_result = NoneV
    /\ new_result = NoneV
    /\ old_results = <<>>
    /\ new_results = <<>>
    /\ status = "running"
    /\ stdout = <<>>
    /\ written = NoneV
    /\ old_bundles = <<>>
    /\ new_bundles = <<>>
    /\ old_effective_date = DateList[1]
    /\ new_effective_date = DateList[1]
    /\ old_pkg = EmptyMap
    /\ new_pkg = EmptyMap
    /\ out = EmptyOut
    /\ IdlePrice
    /\ IdleExtract
    /\ IdleLoad
    /\ IdleDate

\* the first closure of the first join
LoadOld ==
    /\ pc = "run_load"
    /\ old_result = NoneV
    /\ ~LoadSnapshotPanics(old_file)
    /\ old_result' = Some(LoadSnapshot(old_file))
    /\ UNCHANGED <<pc, old_file, new_file, filter, new_result, old_results,
                   new_results, status, stdout, written, runVars, priceVars,
                   extractVars, loadVars, dateVars>>

\* the second closure of the first join
LoadNew ==
    /\ pc = "run_load"
    /\ new_result = NoneV
    /\ ~LoadSnapshotPanics(new_file)
    /\ new_result' = Some(LoadSnapshot(new_file))
    /\ UNCHANGED <<pc, old_file, new_file, filter, old_result, old_results,
                   new_results, status, stdout, written, runVars, priceVars,
                   extractVars, loadVars, dateVars>>

\* a closure of the first join panics, and the join with it
LoadAborts ==
    /\ pc = "run_load"
    /\ \/ old_result = NoneV /\ LoadSnapshotPanics(old_file)
       \/ new_result = NoneV /\ LoadSnapshotPanics(new_file)
    /\ status' = "panic"
    /\ pc' = "exited"
    /\ UNCHANGED <<old_file, new_file, filter, old_result, new_result,
                   old_results, new_results, stdout, written, runVars,
                   priceVars, extractVars, loadVars, dateVars>>

\* old_result.map_err(..)? or new_result.map_err(..)? returns the error
ReturnLoadError ==
    /\ pc = "run_load"
    /\ IsSome(old_result) /\ IsSome(new_result)
    /\ LoadsFailed(Unwrap(old_result), Unwrap(new_result))
    /\ status' = "err"
    /\ pc' = "exited"
    /\ UNCHANGED <<old_file, new_file, filter, old_result, new_result,
                   old_results, new_results, stdout, written, runVars,
                   priceVars, extractVars, loadVars, dateVars>>

\* both results are Ok: the bundles and dates are bound and the chunks of
\* the second join are laid out
StartProcessing ==
    /\ pc = "run_load"
    /\ IsSome(old_result) /\ IsSome(new_result)
    /\ ~LoadsFailed(Unwrap(old_result), Unwrap(new_result))
    /\ old_bundles' = Unwrap(old_result).bundles
    /\ new_bundles' = Unwrap(new_result).bundles
    /\ old_effective_date' = Unwrap(old_result).effective_date
    /\ new_effective_date' = Unwrap(new_result).effective_date
    /\ old_results' =
          [i \in DOMAIN ChunksOf(Unwrap(old_result).bundles, num_threads) |-> NoneV]
    /\ new_results' =
          [i \in DOMAIN ChunksOf(Unwrap(new_result).bundles, num_threads) |-> NoneV]
    /\ pc' = "run_process"
    /\ UNCHANGED <<old_file, new_file, filter, old_result, new_result, status,
                   stdout, written, old_pkg, new_pkg, num_threads, out,
                   priceVars, extractVars, loadVars, dateVars>>

\* a worker maps one chunk of the old file
ProcessOldChunk ==
    /\ pc = "run_process"
    /\ \E i \in DOMAIN old_results :
          LET chunk == ChunksOf(old_bundles, num_threads)[i]
          IN  /\ old_results[i] = NoneV
              /\ ~ProcessBundlesPanics(chunk)
              /\ old_results' =
                    [old_results EXCEPT
                        ![i] = Some(ProcessBundles(chunk, old_effective_date))]
    /\ UNCHANGED <<pc, old_file, new_file, filter, old_result, new_result,
                   new_results, status, stdout, written, runVars, priceVars,
                   extractVars, loadVars, dateVars>>

\* a worker maps one chunk of the new file
ProcessNewChunk ==
    /\ pc = "run_process"
    /\ \E i \in DOMAIN new_results :
          LET chunk == ChunksOf(new_bundles, num_threads)[i]
          IN  /\ new_results[i] = NoneV
              /\ ~ProcessBundlesPanics(chunk)
              /\ new_results' =
                    [new_results EXCEPT
                        ![i] = Some(ProcessBundles(chunk, new_effective_date))]
    /\ UNCHANGED <<pc, old_file, new_file, filter, old_result, new_result,
                   old_results, status, stdout, written, runVars, priceVars,
                   extractVars, loadVars, dateVars>>

\* process_bundles panics on a chunk, and the join with it
ProcessAborts ==
    /\ pc = "run_process"
    /\ \/ \E i \in DOMAIN old_results :
             /\ old_results[i] = NoneV
             /\ ProcessBundlesPanics(ChunksOf(old_bundles, num_threads)[i])
       \/ \E i \in DOMAIN new_results :
             /\ new_results[i] = NoneV
             /\ ProcessBundlesPanics(ChunksOf(new_bundles, num_threads)[i])
    /\ status' = "panic"
    /\ pc' = "exited"
    /\ UNCHANGED <<old_file, new_file, filter, old_result, new_result,
                   old_results, new_results, stdout, written, runVars,
                   priceVars, extractVars, loadVars, dateVars>>

\* every chunk is mapped: each closure merges its results in chunk order
MergeChunks ==
    /\ pc = "run_process"
    /\ \A i \in DOMAIN old_results : IsSome(old_results[i])
    /\ \A i \in DOMAIN new_results : IsSome(new_results[i])
    /\ old_pkg' = ExtendAll(old_results, 1, EmptyMap)
    /\ new_pkg' = ExtendAll(new_results, 1, EmptyMap)
    /\ pc' = "diff"
    /\ UNCHANGED <<old_bundles, new_bundles, old_effective_date,
                   new_effective_date, num_threads, out, ioVars, priceVars,
                   extractVars, loadVars, dateVars>>

\* a known filter: the gtins of its category are printed, Ok(()) returned
PrintFiltered ==
    /\ pc = "diff_done"
    /\ IsSome(filter)
    /\ IsSome(FilterCategory(Unwrap(filter)))
    /\ stdout' = PrintedGtins(out[Unwrap(FilterCategory(Unwrap(filter)))])
    /\ status' = "ok"
    /\ pc' = "exited"
    /\ UNCHANGED <<old_file, new_file, filter, old_result, new_result,
                   old_results, new_results, written, runVars, priceVars,
                   extractVars, loadVars, dateVars>>

\* an unknown filter: std::process::exit(1)
RejectFilter ==
    /\ pc = "diff_done"
    /\ IsSome(filter)
    /\ ~IsSome(FilterCategory(Unwrap(filter)))
    /\ status' = "exit"
    /\ pc' = "exited"
    /\ UNCHANGED <<old_file, new_file, filter, old_result, new_result,
                   old_results, new_results, stdout, written, runVars,
                   priceVars, extractVars, loadVars, dateVars>>

\* no filter: the legend and the nine arrays are written to the file
WriteOutput ==
    /\ pc = "diff_done"
    /\ filter = NoneV
    /\ written' = Some(OutputObject(out))
    /\ status' = "ok"
    /\ pc' = "exited"
    /\ UNCHANGED <<old_file, new_file, filter, old_result, new_result,
                   old_results, new_results, stdout, runVars, priceVars,
                   extractVars, loadVars, dateVars>>

\* no filter, and the directory or the file cannot be created
WriteFails ==
    /\ pc = "diff_done"
    /\ filter = NoneV
    /\ status' = "err"
    /\ pc' = "exited"
    /\ UNCHANGED <<old_file, new_file, filter, old_result, new_result,
                   old_results, new_results, stdout, written, runVars,
                   priceVars, extractVars, loadVars, dateVars>>

NextRun ==
    \/ LoadOld \/ LoadNew \/ LoadAborts \/ ReturnLoadError \/ StartProcessing
    \/ ProcessOldChunk \/ ProcessNewChunk \/ ProcessAborts \/ MergeChunks
    \/ ComputeCategories
    \/ PrintFiltered \/ RejectFilter \/ WriteOutput \/ WriteFails

SpecRun == InitRun /\ [][NextRun]_vars

\* the PackageMap of a loaded snapshot, its bundles processed in one piece
PackagesOfSnapshot(snap) == ProcessBundles(snap.bundles, snap.effective_date)

\* the PackageMap of a file
PackagesOf(file) == PackagesOfSnapshot(LoadSnapshot(file))

\* the nine categories of a pair of files
CategoriesOf(old_f, new_f) == Categories(PackagesOf(old_f), PackagesOf(new_f))

\* two category arrays hold the same set of records and the same number
SameRecords(a, b) ==
    /\ {a[i] : i \in DOMAIN a} = {b[i] : i \in DOMAIN b}
    /\ Len(a) = Len(b)

\* two results agree on each of the nine categories
SameCategories(a, b) == \A name \in CategoryNames : SameRecords(a[name], b[name])

\* C13: once the categories are computed, each of the nine holds the set
\* of records, and the number of records, that the two files alone
\* determine: neither the size of the worker pool, nor the order in which
\* the closures and the chunks ran, shows in them, so that a second run on
\* the same files ends with the same sets and counts.
C13_SameCategoriesEveryRun ==
    pc = "diff_done" => SameCategories(out, CategoriesOf(old_file, new_file))

\* the new file was processed in two chunks that hold the same gtin, the
\* pool has two workers, and a retail rise was found
C13_Witness ==
    /\ pc = "diff_done"
    /\ num_threads = 2
    /\ Len(new_results) = 2
    /\ DOMAIN Unwrap(new_results[1]) \cap DOMAIN Unwrap(new_results[2]) # {}
    /\ out.retail_up # <<>>

\* read_foph_bundles returns Err on the file
LoadFails(file) == ~ReadFophBundles(file.content).ok

\* C19: when read_foph_bundles fails on the old or on the new file, no
\* chunk is ever laid out or processed, no PackageMap and no category is
\* built, nothing is printed or written, and a run that ends without a
\* panic ends by returning the error; and whenever the output file is
\* written, both loads had succeeded and the file holds the nine
\* categories computed from the two PackageMaps.
C19_LoadErrorBeforeAnyWork ==
    /\ LoadFails(old_file) \/ LoadFails(new_file) =>
          /\ pc \in {"run_load", "exited"}
          /\ old_results = <<>> /\ new_results = <<>>
          /\ old_pkg = EmptyMap /\ new_pkg = EmptyMap
          /\ out = EmptyOut
          /\ stdout = <<>> /\ written = NoneV
          /\ pc = "exited" /\ status # "panic" => status = "err"
    /\ IsSome(written) =>
          /\ IsSome(old_result) /\ Unwrap(old_result).ok
          /\ IsSome(new_result) /\ Unwrap(new_result).ok
          /\ DOMAIN out = CategoryNames
          /\ out = Categories(old_pkg, new_pkg)
          /\ Unwrap(written).categories = out

\* the old file was loaded, the new file was not, and the error is returned
C19_Witness ==
    /\ pc = "exited" /\ status = "err"
    /\ IsSome(old_result) /\ Unwrap(old_result).ok
    /\ IsSome(new_result) /\ ~Unwrap(new_result).ok
    /\ written = NoneV

\* the names the match on the filter knows
KnownFilterNames ==
    {"new", "del", "delete", "sl_entry", "sl_entry_delete",
     "name", "name_base", "productname",
     "retail_up", "price_rise_retail", "retail_down", "price_cut_retail",
     "exfactory_up", "price_rise_exfactory",
     "exfactory_down", "price_cut_exfactory"}

\* C20: with a filter that is none of the known names, no gtin is printed
\* and no output file is written at any time, and the process ends with a
\* status other than 0.
C20_UnknownFilterRejected ==
    IsSome(filter) /\ Unwrap(filter) \notin KnownFilterNames =>
        /\ stdout = <<>>
        /\ written = NoneV
        /\ status # "ok"
        /\ pc = "exited" => ExitCode(status) # 0

\* the categories were computed, one of them holds a record, and the run
\* ended in the arm of the unknown name
C20_Witness ==
    /\ pc = "exited" /\ status = "exit"
    /\ filter = Some("price_rise")
    /\ \E name \in CategoryNames : out[name] # <<>>
    /\ stdout = <<>> /\ written = NoneV

\* the category each recognized filter name stands for
CategoryOfName ==
    [n \in KnownFilterNames |->
        IF n \in {"del", "delete"} THEN "del"
        ELSE IF n \in {"name", "name_base", "productname"} THEN "name_base"
        ELSE IF n \in {"retail_up", "price_rise_retail"} THEN "retail_up"
        ELSE IF n \in {"retail_down", "price_cut_retail"} THEN "retail_down"
        ELSE IF n \in {"exfactory_up", "price_rise_exfactory"} THEN "exfactory_up"
        ELSE IF n \in {"exfactory_down", "price_cut_exfactory"} THEN "exfactory_down"
        ELSE n]

ReservedCodes == {4, 5, 6, 7, 8, 9, 12, 16}

\* every flag of every record of the nine arrays
EmittedFlags(categories) ==
    UNION {UNION {Range(categories[name][i].flags) : i \in DOMAIN categories[name]} :
             name \in CategoryNames}

\* C22: every flag code of every record of the nine arrays is one of the
\* codes 1..16 of the legend and none of the reserved codes 4, 5, 6, 7, 8,
\* 9, 12, 16; the legend of the document is, whatever the two PackageMaps,
\* the same table from the codes 1..16 to the same sixteen names.
C22_FlagsWithinLegend ==
    /\ OutputObject(out).flag_legend =
          <<"new", "sl_entry_delete", "name_base", "address", "ikscat",
            "composition", "indication", "sequence", "expiry_date", "sl_entry",
            "price", "comment", "price_rise", "delete", "price_cut",
            "not_specified">>
    /\ EmittedFlags(out) \subseteq (1..16) \ ReservedCodes

\* the diff holds a new package and a price cut
C22_Witness ==
    /\ pc = "diff_done"
    /\ out.new # <<>>
    /\ \E i \in DOMAIN out.retail_down : out.retail_down[i].flags = <<11, 15>>

-----------------------------------------------------------------------------
(* Specification SpecSeries: process_bundles on bundles whose              *)
(* authorizations differ in id, type coding, subject and price extensions. *)

\* an extension that is no price extension
OtherExt == [url |-> "http://fhir.ch/ig/ch-epl/StructureDefinition/other",
             extension |-> NoneV]

\* a price extension without sub-extensions
BareExt == [url |-> ProductPriceUrl, extension |-> NoneV]

\* two products, and authorizations: two for product 1 that give the same
\* date another retail amount (the second one twice), one whose samples
\* are invalid but one, one without an id, one without the
\* reimbursement-list code under the id of the first, one for product 2,
\* and one with a change date that cannot be sliced
SeriesPool ==
    << Some(Product("1", Some(<<Identifier(GtinSystem, GtinA)>>),
                    Some("Drug A"), NoneV)),
       Some(Product("2", Some(<<Identifier(GtinSystem, GtinB)>>),
                    Some("Drug B"), NoneV)),
       Some(Authorization("1", <<SlCode>>, ResourceKey(PPD, "1"),
               Some(<<PriceExt(RetailCode, 100000, IsoDate(DateList[1]))>>))),
       Some(Authorization("2", <<SlCode>>, ResourceKey(PPD, "1"),
               Some(<<PriceExt(RetailCode, 100000, IsoDate(DateList[1])),
                      PriceExt(RetailCode, 125000, IsoDate(DateList[1]))>>))),
       Some(Authorization("3", <<SlCode>>, ResourceKey(PPD, "1"),
               Some(<<PriceExt(RetailCode, 0, IsoDate(DateList[1])),
                      OtherExt,
                      PriceExt("756002005003", 125000, IsoDate(DateList[1])),
                      BareExt,
                      PriceExt(RetailCode, 125000, DateShort),
                      PriceExt(ExfactoryCode, 125000, IsoDate(DateList[1]))>>))),
       Some(Authorization("", <<SlCode>>, ResourceKey(PPD, "1"),
               Some(<<PriceExt(RetailCode, 125000, IsoDate(DateList[1]))>>))),
       Some(Authorization("1", <<"756000002001">>, ResourceKey(PPD, "1"),
               Some(<<PriceExt(RetailCode, 125000, IsoDate(DateList[1]))>>))),
       Some(Authorization("2", <<SlCode>>, ResourceKey(PPD, "2"),
               Some(<<PriceExt(ExfactoryCode, 100000, IsoDate(DateList[1]))>>))),
       Some(Authorization("3", <<SlCode>>, ResourceKey(PPD, "2"),
               Some(<<PriceExt(RetailCode, 125000, DateOffBoundary)>>))) >>

InitSeries ==
    /\ pc = "extract"
    /\ \E n \in 0..MaxEntries :
          \E idx \in [1..n -> DOMAIN SeriesPool], cuts \in SUBSET (1..(n - 1)) :
              bundles = BundlesOf(SeriesPool, n, idx, cuts)
    /\ current_dt = DateList[1]
    /\ packages = EmptyMap
    /\ IdlePrice
    /\ IdleRun
    /\ IdleLoad
    /\ IdleDate
    /\ IdleIo

SpecSeries == InitSeries /\ [][NextExtract]_vars

\* the products indexed in the bundles with a qualifying GTIN, each as a
\* record of its bundle, its resource key and its GTIN
IndexedProducts(bs) ==
    UNION {LET resources == IndexOf(bs, b)
           IN  {[bundle |-> b, key |-> k,
                 gtin |-> Unwrap(ExtractGtin(resources[k]))] :
                k \in {j \in DOMAIN resources :
                          /\ resources[j].rtype = PPD
                          /\ IsSome(ExtractGtin(resources[j]))}} :
           b \in DOMAIN bs}

\* the products whose GTIN no other indexed product of the sequence carries
LoneProducts(products) ==
    {p \in products : \A q \in products \ {p} : q.gtin # p.gtin}

\* an Authorization with the reimbursement-list code whose subject is key
LinksTo(res, key) ==
    /\ res.rtype = RA
    /\ IsSome(res.coding) /\ SlCode \in Range(Unwrap(res.coding))
    /\ res.subject = key

\* the samples <<price type, amount>> of an authorization that have a
\* positive amount, a retail or ex-factory code and a date that parses
SamplesOf(auth) ==
    IF ~IsSome(auth.extension) THEN {}
    ELSE {<<PriceType(PriceFields(ext)[1]), PriceFields(ext)[2]>> :
            ext \in {e \in Range(Unwrap(auth.extension)) :
                        ReachesParse(e) /\ IsSome(ParseDateStr(PriceFields(e)[3]))}}

\* the entries of bundle b that are such Authorizations
LinkedEntries(bs, b, key) ==
    {Unwrap(e) : e \in {x \in Range(Unwrap(bs[b].entry)) :
                            IsSome(x) /\ LinksTo(Unwrap(x), key)}}

\* the resources in the index of bundle b that are such Authorizations
LinkedResources(bs, b, key) ==
    {r \in Range(IndexOf(bs, b)) : LinksTo(r, key)}

\* a PackageMap has product p with hasReimbursementEntry true exactly if
\* linked is not empty, and every price of p in it is 0 or an amount of a
\* sample of linked, and not 0 if linked has a sample of that type (every
\* sample is dated on the reference date)
AffectedBy(pkgs, p, linked) ==
    LET samples == UNION {SamplesOf(a) : a \in linked}
    IN  /\ p.gtin \in DOMAIN pkgs <=> linked # {}
        /\ p.gtin \in DOMAIN pkgs =>
              /\ pkgs[p.gtin].has_sl_entry
              /\ pkgs[p.gtin].retail_price \in
                    IF \E x \in samples : x[1] = "retail"
                    THEN {x[2] : x \in {y \in samples : y[1] = "retail"}}
                    ELSE {0}
              /\ pkgs[p.gtin].exfactory_price \in
                    IF \E x \in samples : x[1] = "exfactory"
                    THEN {x[2] : x \in {y \in samples : y[1] = "exfactory"}}
                    ELSE {0}

\* C23 as stated: a product has hasReimbursementEntry true, and price
\* samples from an Authorization, exactly for the Authorizations that are
\* entries of the same bundle, carry the reimbursement-list code among
\* their type codings and reference the product's ResourceKey.
C23_LinkedByEntries ==
    pc = "extract_done" =>
        \A p \in LoneProducts(IndexedProducts(bundles)) :
            AffectedBy(packages, p, LinkedEntries(bundles, p.bundle, p.key))

\* C23 as amended: the same, for the Authorizations that are in the
\* resource index of the same bundle, which holds an entry only if it has
\* a type and an id and no later entry of the bundle has the same
\* ResourceKey.
C23_LinkedByIndex ==
    pc = "extract_done" =>
        \A p \in LoneProducts(IndexedProducts(bundles)) :
            AffectedBy(packages, p, LinkedResources(bundles, p.bundle, p.key))

\* product 1 is kept with the sample of its own Authorization alone,
\* although an Authorization of product 2 with an ex-factory sample sits in
\* the same bundle
C23_Witness ==
    /\ pc = "extract_done"
    /\ GtinA \in DOMAIN packages
    /\ packages[GtinA].retail_price = 100000
    /\ packages[GtinA].exfactory_price = 0
    /\ \E p \in IndexedProducts(bundles) :
          /\ p.gtin = GtinA
          /\ LinkedResources(bundles, p.bundle, p.key) # {}
          /\ LinkedResources(bundles, p.bundle, ResourceKey(PPD, "2")) # {}

\* the positions of the entries of bundle b that are in its index and are
\* Authorizations with the reimbursement-list code whose subject is key
LinkedPositions(bs, b, key) ==
    LET entries == Unwrap(bs[b].entry)
    IN  {i \in DOMAIN entries :
            /\ IsSome(entries[i])
            /\ LinksTo(Unwrap(entries[i]), key)
            /\ Unwrap(entries[i]).id # ""
            /\ \A j \in DOMAIN entries :
                  j > i /\ IsSome(entries[j]) =>
                      \/ Unwrap(entries[j]).rtype # Unwrap(entries[i]).rtype
                      \/ Unwrap(entries[j]).id # Unwrap(entries[i]).id}

\* the price extensions of an authorization that yield a sample of price
\* type t, in the order of the extension array
SamplesOfType(auth, t) ==
    IF ~IsSome(auth.extension) THEN <<>>
    ELSE SelectSeq(Unwrap(auth.extension),
                   LAMBDA e : /\ ReachesParse(e)
                              /\ IsSome(ParseDateStr(PriceFields(e)[3]))
                              /\ PriceType(PriceFields(e)[1]) = t)

\* the amount of the last sample of price type t in entry order among the
\* entries at the positions pos, 0 if there is none (every sample is dated
\* on the reference date)
LastInEntryOrder(entries, pos, t) ==
    LET with == {i \in pos : SamplesOfType(Unwrap(entries[i]), t) # <<>>}
    IN  IF with = {} THEN 0
        ELSE LET last == CHOOSE i \in with : \A j \in with : j <= i
                 exts == SamplesOfType(Unwrap(entries[last]), t)
             IN  PriceFields(exts[Len(exts)])[2]

\* C24: when the Authorizations of a product give several samples of one
\* price type for one change date, the amount kept for that date, here the
\* price resolved on that date, is the amount of the last of them in the
\* order of the bundle's entries (and, within one Authorization, of its
\* extensions).
C24_LastEntryWins ==
    pc = "extract_done" =>
        \A p \in LoneProducts(IndexedProducts(bundles)) :
            p.gtin \in DOMAIN packages =>
                LET entries == Unwrap(bundles[p.bundle].entry)
                    pos == LinkedPositions(bundles, p.bundle, p.key)
                IN  /\ packages[p.gtin].retail_price =
                          LastInEntryOrder(entries, pos, "retail")
                    /\ packages[p.gtin].exfactory_price =
                          LastInEntryOrder(entries, pos, "exfactory")

\* a price extension that yields a sample: a retail or ex-factory code, an
\* amount > 0 and a change date that parses
ValidSample(e) ==
    /\ ContainsProductPrice(e.url)
    /\ IsSome(e.extension)
    /\ PriceFields(e)[1] \in {RetailCode, ExfactoryCode}
    /\ PriceFields(e)[2] > 0
    /\ ~ParseDateStrPanics(PriceFields(e)[3])
    /\ IsSome(ParseDateStr(PriceFields(e)[3]))

\* the extensions of the entries of the bundles, each as a record of its
\* bundle, its entry and its position in the extension array
ExtensionsIn(bs) ==
    UNION {UNION {{[bundle |-> b, entry |-> i, ext |-> x] :
                      x \in DOMAIN Unwrap(Unwrap(Unwrap(bs[b].entry)[i]).extension)} :
                  i \in {j \in DOMAIN Unwrap(bs[b].entry) :
                            /\ IsSome(Unwrap(bs[b].entry)[j])
                            /\ IsSome(Unwrap(Unwrap(bs[b].entry)[j]).extension)}} :
           b \in DOMAIN bs}

\* the extension at place w of the bundles
ExtensionAt(bs, w) ==
    Unwrap(Unwrap(Unwrap(bs[w.bundle].entry)[w.entry]).extension)[w.ext]

\* a sequence without its element x
Without(seq, x) == SubSeq(seq, 1, x - 1) \o SubSeq(seq, x + 1, Len(seq))

\* the bundles with the extension at place w taken out of its array
WithoutExtension(bs, w) ==
    [bs EXCEPT ![w.bundle].entry =
        Some([Unwrap(@) EXCEPT ![w.entry] =
            Some([Unwrap(@) EXCEPT !.extension = Some(Without(Unwrap(@), w.ext))])])]

\* C25: process_bundles never stops on a price extension; the prices of
\* the PackageMap it returns are 0 or amounts of extensions with an amount
\* > 0, a change date that parses and a retail or ex-factory code; and the
\* PackageMap is the one it returns for the same bundles without any one
\* of the other extensions, which is thus skipped alone.
C25_InvalidSampleSkippedAlone ==
    /\ pc # "extract_panic"
    /\ pc = "extract_done" =>
          LET places == ExtensionsIn(bundles)
              amounts == {PriceFields(ExtensionAt(bundles, w))[2] :
                            w \in {v \in places : ValidSample(ExtensionAt(bundles, v))}}
          IN  /\ \A g \in DOMAIN packages :
                    /\ packages[g].retail_price \in amounts \cup {0}
                    /\ packages[g].exfactory_price \in amounts \cup {0}
              /\ \A w \in places :
                    ~ValidSample(ExtensionAt(bundles, w)) =>
                        ProcessBundles(WithoutExtension(bundles, w), current_dt) = packages

\* the contiguous chunks of a bundle sequence cut after the places in cuts
ChunksAt(bs, cuts) ==
    LET ends == cuts \cup {Len(bs)}
        starts == {1} \cup {c + 1 : c \in cuts}
    IN  IF Len(bs) = 0 THEN <<>>
        ELSE [k \in 1..Cardinality(starts) |->
                LET first == CHOOSE s \in starts :
                                 Cardinality({t \in starts : t <= s}) = k
                    last == CHOOSE e \in ends :
                                e >= first /\ \A f \in ends : f >= first => e <= f
                IN  SubSeq(bs, first, last)]

\* the chunks of a list of per-chunk PackageMaps that hold gtin g
ChunksHolding(maps, g) == {i \in DOMAIN maps : g \in DOMAIN maps[i]}

\* merged holds, for each gtin, the record of the last map that holds it
LastChunkWins(merged, maps) ==
    /\ DOMAIN merged = UNION {DOMAIN maps[i] : i \in DOMAIN maps}
    /\ \A g \in DOMAIN merged :
          \E i \in ChunksHolding(maps, g) :
              /\ \A j \in ChunksHolding(maps, g) : j <= i
              /\ merged[g] = maps[i][g]

\* the per-chunk PackageMaps of a list of chunks
MapsOf(chunks, cur) == [i \in DOMAIN chunks |-> ProcessBundles(chunks[i], cur)]

\* the merge of a partition follows the last chunk and equals whole
PartitionAgrees(chunks, cur, whole) ==
    /\ LastChunkWins(whole, MapsOf(chunks, cur))
    /\ MergeResults(chunks, 1, cur, EmptyMap) = whole

\* every partition of bs into contiguous chunks merges to pkg, which is
\* also the PackageMap of bs processed in one piece
EveryPartitionMergesTo(bs, cur, pkg) ==
    /\ pkg = ProcessBundles(bs, cur)
    /\ \A cuts \in SUBSET (1..(Len(bs) - 1)) :
          PartitionAgrees(ChunksAt(bs, cuts), cur, pkg)

\* the results of the workers, as a list of PackageMaps
Unwrapped(results) == [i \in DOMAIN results |-> Unwrap(results[i])]

\* C26: once the chunk workers of a run have all finished, in whatever
\* order, the merged PackageMap of each snapshot holds for each gtin the
\* record of the last chunk, in sequence order, whose result holds it;
\* it is the PackageMap that process_bundles returns for the whole bundle
\* sequence, and so is the merge of every other partition of the
\* sequence into contiguous chunks.
C26_MergeEqualsWholeRun ==
    pc \in {"diff", "diff_done"} =>
        /\ LastChunkWins(old_pkg, Unwrapped(old_results))
        /\ LastChunkWins(new_pkg, Unwrapped(new_results))
        /\ EveryPartitionMergesTo(old_bundles, old_effective_date, old_pkg)
        /\ EveryPartitionMergesTo(new_bundles, new_effective_date, new_pkg)

\* the old file was processed in two chunks whose results hold the same
\* gtin with different records, and the merge kept the second
C26_Witness ==
    /\ pc = "diff"
    /\ Len(old_results) = 2
    /\ \E g \in DOMAIN Unwrap(old_results[1]) \cap DOMAIN Unwrap(old_results[2]) :
          /\ Unwrap(old_results[1])[g] # Unwrap(old_results[2])[g]
          /\ old_pkg[g] = Unwrap(old_results[2])[g]

RECURSIVE BundleObjects(_, _, _)
\* the documents of a text that is nothing but well-formed bundle objects,
\* one after the other with at most whitespace and line breaks between
\* their tokens, read from token i on; None of any other text
BundleObjects(t, i, docs) ==
    IF SkipWs(t, i) > Len(t) THEN Some(docs)
    ELSE LET v == ParseValue(t, SkipWs(t, i))
         IN  IF v.ok /\ IsBundle(v.val)
             THEN BundleObjects(t, v.next, Append(docs, AsBundle(v.val)))
             ELSE NoneV

\* the answer read_foph_bundles owes on a text of bundle objects
LoadsExactly(r, docs) ==
    IsSome(docs) => r.bundles = Unwrap(docs) /\ r.ok = (Unwrap(docs) # <<>>)

\* C27: when the fallback pass runs on a text made of N well-formed bundle
\* objects written one after the other, on one line or over several, it
\* yields exactly those N bundles in their order, whatever braces, escaped
\* quotes and escaped backslashes their string values hold.
C27_ConcatenatedBundlesLoaded ==
    (pc = "load_done" /\ IsSome(content) /\ loaded.fallback_ran) =>
        LoadsExactly(loaded, BundleObjects(Unwrap(content), 1, <<>>))

\* token x of text t is followed by token y
Follows(t, x, y) == \E i \in 1..(Len(t) - 1) : t[i] = x /\ t[i + 1] = y

\* the fallback pass found three different bundles, in the order of the
\* text, in a text of bundle objects with a brace after an escaped quote
\* and a quote after an escaped backslash inside their strings
C27_Witness ==
    /\ pc = "load_done"
    /\ loaded.fallback_ran
    /\ Len(loaded.bundles) = 3
    /\ loaded.bundles[1] # loaded.bundles[2]
    /\ loaded.bundles[2] # loaded.bundles[3]
    /\ loaded.bundles[1] # loaded.bundles[3]
    /\ IsSome(content)
    /\ IsSome(BundleObjects(Unwrap(content), 1, <<>>))
    /\ Follows(Unwrap(content), Backslash, Quote)
    /\ Follows(Unwrap(content), Backslash, Backslash)

\* the brace depth the scanner tracks after the first k characters of text
DepthAfter(text, k) == ScanLoop(text, 1, k, ScanStart).depth

RECURSIVE ObjectsAfterSkips(_, _, _)
\* the bundles of a text read from token i on with every well-formed
\* top-level object taken whole and every other token skipped alone
ObjectsAfterSkips(t, i, docs) ==
    IF i > Len(t) THEN docs
    ELSE IF t[i] = "{" /\ ParseValue(t, i).ok
    THEN ObjectsAfterSkips(t, ParseValue(t, i).next,
                           IF IsBundle(ParseValue(t, i).val)
                           THEN Append(docs, AsBundle(ParseValue(t, i).val))
                           ELSE docs)
    ELSE ObjectsAfterSkips(t, i + 1, docs)

\* the scanner never tracks a negative depth on text, and bs holds every
\* well-formed top-level bundle object of text
SkipsOnlyStraySpans(text, bs) ==
    /\ \A k \in 0..Len(text) : DepthAfter(text, k) >= 0
    /\ bs = ObjectsAfterSkips(text, 1, <<>>)

\* C28: when the fallback pass runs, the brace depth it tracks is never
\* negative, and characters outside any object (such as an unmatched
\* closing brace before an object) are skipped alone: every well-formed
\* top-level bundle object of the text is loaded, in order.
C28_StrayCharactersSkippedAlone ==
    (pc = "load_done" /\ IsSome(content) /\ loaded.fallback_ran) =>
        SkipsOnlyStraySpans(Retain(Unwrap(content)), loaded.bundles)

\* every record of the PackageMap has has_sl_entry = true
AllListed(pkg) == \A g \in DOMAIN pkg : pkg[g].has_sl_entry

\* the new file holds a product with GTIN g, and no such product has a
\* reimbursement entry linked to it
EntryLostInNew(g) ==
    LET products == {p \in ProductsWithGtin(new_bundles, new_effective_date) :
                        p.gtin = g}
    IN  /\ products # {}
        /\ \A p \in products :
              LinkedResources(new_bundles, p.bundle, p.key) = {}

\* every result of a chunk that is there has has_sl_entry = true throughout
AllChunksListed(results) ==
    \A i \in DOMAIN results : IsSome(results[i]) => AllListed(Unwrap(results[i]))

SameGtins(a, b) == GtinsIn(a) = GtinsIn(b) /\ Len(a) = Len(b)

\* what a price record says: whose price, which one, from what to what
ChangeOf(r) ==
    [gtin |-> r.gtin, type |-> r.type, from |-> r.old_price, to |-> r.new_price,
     difference |-> r.difference]

\* the same change read from the other side
Reversed(r) ==
    [gtin |-> r.gtin, type |-> r.type, from |-> r.new_price, to |-> r.old_price,
     difference |-> 0 - r.difference]

\* the rises of one run are the cuts of the other, price for price
MirrorPrices(up, down) ==
    /\ SameGtins(up, down)
    /\ {ChangeOf(up[i]) : i \in DOMAIN up} = {Reversed(down[i]) : i \in DOMAIN down}

\* d and s are the categories of a pair of PackageMaps and of the swapped
\* pair
Mirrors(d, s) ==
    /\ SameGtins(d.new, s.del)
    /\ SameGtins(d.del, s.new)
    /\ SameGtins(d.sl_entry, s.sl_entry_delete)
    /\ SameGtins(d.sl_entry_delete, s.sl_entry)
    /\ SameGtins(d.name_base, s.name_base)
    /\ MirrorPrices(d.retail_up, s.retail_down)
    /\ MirrorPrices(s.retail_up, d.retail_down)
    /\ MirrorPrices(d.exfactory_up, s.exfactory_down)
    /\ MirrorPrices(s.exfactory_up, d.exfactory_down)

\* all nine arrays are empty
AllEmpty(d) == \A c \in CategoryNames : d[c] = <<>>

\* C30: the categories of (old, new) mirror those of (new, old): new and
\* del exchange their gtins, so do sl_entry and sl_entry_delete, retail_up
\* and retail_down, exfactory_up and exfactory_down (each rise being the
\* cut of the swapped run with its two prices exchanged), name_base has
\* the same gtins in both; and the old PackageMap (any PackageMap)
\* compared with itself gives nine empty arrays.
C30_SwapMirrorsDiff ==
    pc = "diff_done" =>
        /\ \A swapped \in {Categories(new_pkg, old_pkg)} : Mirrors(out, swapped)
        /\ \A same \in {Categories(old_pkg, old_pkg)} : AllEmpty(same)

\* one package rose in retail price, gained its reimbursement entry and
\* changed its name, another one is new, and a third one is deleted
C30_Witness ==
    /\ pc = "diff_done"
    /\ out.retail_up # <<>>
    /\ out.sl_entry # <<>>
    /\ out.name_base # <<>>
    /\ out.exfactory_down # <<>>

=============================================================================
